---- MODULE Spec2Model ----
(***************************************************************************)
(* TradingAgents-CN: the Tushare data-provider adapter                     *)
(* (tradingagents/dataflows/tushare_utils.py) and the metered DeepSeek     *)
(* chat adapter (tradingagents/llm_adapters/deepseek_adapter.py).          *)
(*                                                                         *)
(* Every public operation is one action.  An operation is computed by an   *)
(* operator that follows the handler's control flow; what the external     *)
(* collaborators (remote API, cache facade, usage tracker, logger) answer  *)
(* is an input of the action.  A finished call is kept in a call record    *)
(* until the caller takes it (Return).                                     *)
(***************************************************************************)
EXTENDS Integers, Sequences, FiniteSets, TLC

VARIABLES provider, pcall, cache, listed, tracking, hashseed, ccall, ncall,
          tushare_provider, constructed, threads, adapter, acall

vars ==
    <<provider, pcall, cache, listed, tracking, hashseed, ccall, ncall,
      tushare_provider, constructed, threads, adapter, acall>>

(* The cache facade's content and whether get_stock_list has returned a   *)
(* listing within the last 24 hours.                                      *)
cachevars == <<cache, listed>>

(* The state of the chat adapter and the state of a normalization. *)
chatvars == <<tracking, hashseed, ccall>>
normvars == <<ncall>>

(* The module-level handle _tushare_provider, the instances constructed   *)
(* so far and the threads calling get_tushare_provider.                   *)
globvars == <<tushare_provider, constructed, threads>>

(* A DeepSeekAdapter instance and the call made on it. *)
llmvars == <<adapter, acall>>

(***************************************************************************)
(* Bounds of the model.                                                    *)
(***************************************************************************)
MaxTok == 1
MaxGen == 1
MaxMsgs == 2
MaxParts == 3
MaxThreads == 2
MaxCalls == 2
MaxSaved == 1

(***************************************************************************)
(* Strings are sequences of one-character strings, so that replace,        *)
(* startswith, `in` and regular-expression search are computed.            *)
(***************************************************************************)
RECURSIVE Replace(_, _)
Replace(s, old) ==
    IF Len(s) < Len(old) THEN s
    ELSE IF SubSeq(s, 1, Len(old)) = old
         THEN Replace(SubSeq(s, Len(old) + 1, Len(s)), old)
         ELSE <<Head(s)>> \o Replace(Tail(s), old)

Contains(s, c) == \E i \in 1..Len(s) : s[i] = c

StartsWith(s, c) == Len(s) > 0 /\ s[1] = c

(* An argument the caller passes where a str is expected: a str, or None. *)
StrArg(s) == [isStr |-> TRUE, s |-> s]
NoneArg == [isStr |-> FALSE, s |-> <<>>]

normalize_symbol_wrong_exchange(symbol) ==
    LET s1 == Replace(Replace(symbol, <<"s", "h", ".">>), <<"s", "z", ".">>)
    IN  IF Contains(s1, ".") THEN s1
        ELSE s1 \o <<".", "S", "Z">>

normalize_symbol_by_prefix(symbol) ==
    LET s1 == Replace(Replace(symbol, <<"s", "h", ".">>), <<"s", "z", ".">>)
    IN  IF Contains(s1, ".") THEN s1
        ELSE IF Len(symbol) >= 3 /\ SubSeq(symbol, 1, 3) = <<"s", "h", ".">>
             THEN s1 \o <<".", "S", "H">>
        ELSE IF Len(symbol) >= 3 /\ SubSeq(symbol, 1, 3) = <<"s", "z", ".">>
             THEN s1 \o <<".", "S", "Z">>
        ELSE IF StartsWith(s1, "6") THEN s1 \o <<".", "S", "H">>
        ELSE IF StartsWith(s1, "0") \/ StartsWith(s1, "3") THEN s1 \o <<".", "S", "Z">>
        ELSE IF StartsWith(s1, "8") THEN s1 \o <<".", "B", "J">>
        ELSE s1 \o <<".", "S", "Z">>

normalize_symbol_always_suffixed(symbol) ==
    LET s1 == Replace(Replace(symbol, <<"s", "h", ".">>), <<"s", "z", ".">>)
    IN  IF StartsWith(s1, "6") THEN s1 \o <<".", "S", "H">>
        ELSE IF StartsWith(s1, "0") \/ StartsWith(s1, "3") THEN s1 \o <<".", "S", "Z">>
        ELSE IF StartsWith(s1, "8") THEN s1 \o <<".", "B", "J">>
        ELSE s1 \o <<".", "S", "Z">>

normalize_symbol_yahoo_suffix(symbol) ==
    LET s1 == Replace(Replace(symbol, <<"s", "h", ".">>), <<"s", "z", ".">>)
    IN  IF Contains(s1, ".") THEN s1
        ELSE IF StartsWith(s1, "6") THEN s1 \o <<".", "S", "S">>
        ELSE IF StartsWith(s1, "0") \/ StartsWith(s1, "3") THEN s1 \o <<".", "S", "Z">>
        ELSE IF StartsWith(s1, "8") THEN s1 \o <<".", "B", "J">>
        ELSE s1 \o <<".", "S", "Z">>

normalize_symbol(symbol) ==
    LET s1 == Replace(Replace(symbol, <<"s", "h", ".">>), <<"s", "z", ".">>)
    IN  IF Contains(s1, ".") THEN s1
        ELSE IF StartsWith(s1, "6") THEN s1 \o <<".", "S", "H">>
        ELSE IF StartsWith(s1, "0") \/ StartsWith(s1, "3") THEN s1 \o <<".", "S", "Z">>
        ELSE IF StartsWith(s1, "8") THEN s1 \o <<".", "B", "J">>
        ELSE s1 \o <<".", "S", "Z">>

(***************************************************************************)
(* Values.  A table (pandas DataFrame) is a sequence of rows; a row has    *)
(* the columns the handlers read.  A date string is its format and its     *)
(* day number, so that strftime and replace('-', '') are conversions.      *)
(***************************************************************************)
NoDate == [fmt |-> "none", day |-> 0]
Compact(day) == [fmt |-> "compact", day |-> day]
Dashed(day) == [fmt |-> "dash", day |-> day]
Timestamp(day) == [fmt |-> "datetime", day |-> day]

ListRow(code, sym, name) ==
    [ts_code |-> code, symbol |-> sym, name |-> name, trade_date |-> NoDate]
DailyRow(code, day) ==
    [ts_code |-> code, symbol |-> <<>>, name |-> <<>>, trade_date |-> Compact(day)]

NoInfo ==
    [symbol |-> NoneArg, ts_code |-> <<>>, name |-> [prefix |-> "", text |-> NoneArg],
     source |-> "", keys |-> {}]
NoFin ==
    [keys |-> {}, balance_sheet |-> <<>>, income_statement |-> <<>>, cash_flow |-> <<>>]

Frame(rows) == [kind |-> "frame", rows |-> rows, info |-> NoInfo, fin |-> NoFin]
EmptyFrame == Frame(<<>>)
InfoDict(i) == [kind |-> "dict", rows |-> <<>>, info |-> i, fin |-> NoFin]
FinDict(f) == [kind |-> "dict", rows |-> <<>>, info |-> NoInfo, fin |-> f]
NoValue == [kind |-> "none", rows |-> <<>>, info |-> NoInfo, fin |-> NoFin]

(* What an external call answered: its kind and, for a table, its rows. *)
Out(kind, rows) == [kind |-> kind, rows |-> rows]
Raises == Out("raise", <<>>)

(* One call to an external collaborator, with its arguments and answer. *)
ExtCall(fn, sym, d1, d2, src, data, out) ==
    [fn |-> fn, sym |-> sym, d1 |-> d1, d2 |-> d2, src |-> src, data |-> data,
     max_age_hours |-> 0, out |-> out]

(* The state of a handler's body: whether an exception is in flight, the  *)
(* external calls made so far, the failures logged, the value returned.   *)
Ret(ext, caught, value) ==
    [exc |-> FALSE, ext |-> ext, caught |-> caught, value |-> value]
Exc(ext, caught) ==
    [exc |-> TRUE, ext |-> ext, caught |-> caught, value |-> NoValue]

(* try: <body> except Exception: return <fallback> *)
TryExcept_propagates(body, fallback) == body

TryExcept(body, fallback) ==
    IF body.exc THEN Ret(body.ext, body.caught, fallback) ELSE body

(***************************************************************************)
(* TushareProvider.__init__.  token is the argument, env_token whether     *)
(* TUSHARE_TOKEN is set; the record keeps whether a token was found.       *)
(***************************************************************************)
TushareProvider(token, env_token, enable_cache, cache_avail, get_cache_ok, ts_avail, pro_api_ok) ==
    LET want_cache == enable_cache /\ cache_avail
        cache_on == want_cache /\ get_cache_ok
        found == token \/ env_token
        api_on == found /\ ts_avail /\ pro_api_ok
    IN  [token |-> found, connected |-> api_on, api |-> api_on,
         enable_cache |-> cache_on, cache_manager |-> cache_on]

ListKey == StrArg(<<"tushare_stock_list">>)
MaxAgeHours == 24
NoArgs == StrArg(<<>>)

(***************************************************************************)
(* TushareProvider.get_stock_list                                          *)
(***************************************************************************)
stock_list_fetch_save_aborts(self, ext, caught, remoteOut, saveOut) ==
    LET call == ExtCall("stock_basic", NoArgs, NoDate, NoDate, "", <<>>, remoteOut)
        ext1 == Append(ext, call)
        save == ExtCall("save", ListKey, NoDate, NoDate, "tushare", remoteOut.rows, saveOut)
    IN  IF remoteOut.kind = "raise" THEN Exc(ext1, caught \cup {"remote"})
        ELSE IF remoteOut.kind = "none" THEN Ret(ext1, caught, EmptyFrame)
        ELSE IF remoteOut.kind = "malformed" THEN Exc(ext1, caught \cup {"malformed"})
        ELSE IF remoteOut.rows = <<>> THEN Ret(ext1, caught, EmptyFrame)
        ELSE IF self.enable_cache /\ self.cache_manager
             THEN IF saveOut.kind = "raise"
                  THEN Exc(Append(ext1, save), caught \cup {"save"})
                  ELSE Ret(Append(ext1, save), caught, Frame(remoteOut.rows))
             ELSE Ret(ext1, caught, Frame(remoteOut.rows))

stock_list_fetch(self, ext, caught, remoteOut, saveOut) ==
    LET call == ExtCall("stock_basic", NoArgs, NoDate, NoDate, "", <<>>, remoteOut)
        ext1 == Append(ext, call)
        save == ExtCall("save", ListKey, NoDate, NoDate, "tushare", remoteOut.rows, saveOut)
    IN  IF remoteOut.kind = "raise" THEN Exc(ext1, caught \cup {"remote"})
        ELSE IF remoteOut.kind = "none" THEN Ret(ext1, caught, EmptyFrame)
        ELSE IF remoteOut.kind = "malformed" THEN Exc(ext1, caught \cup {"malformed"})
        ELSE IF remoteOut.rows = <<>> THEN Ret(ext1, caught, EmptyFrame)
        ELSE IF self.enable_cache /\ self.cache_manager
             THEN IF saveOut.kind = "raise"
                  THEN Ret(Append(ext1, save), caught \cup {"save"}, Frame(remoteOut.rows))
                  ELSE Ret(Append(ext1, save), caught, Frame(remoteOut.rows))
             ELSE Ret(ext1, caught, Frame(remoteOut.rows))

stock_list_body_refetches_json(self, findOut, loadOut, remoteOut, saveOut) ==
    LET find == [ExtCall("find", ListKey, NoDate, NoDate, "", <<>>, findOut)
                     EXCEPT !.max_age_hours = MaxAgeHours]
        load == ExtCall("load", ListKey, NoDate, NoDate, "", <<>>, loadOut)
    IN  IF ~(self.enable_cache /\ self.cache_manager)
        THEN stock_list_fetch(self, <<>>, {}, remoteOut, saveOut)
        ELSE IF findOut.kind = "raise" THEN Exc(<<find>>, {"find"})
        ELSE IF findOut.kind = "miss"
             THEN stock_list_fetch(self, <<find>>, {}, remoteOut, saveOut)
        ELSE IF loadOut.kind = "raise" THEN Exc(<<find, load>>, {"load"})
        ELSE IF loadOut.kind = "frame" /\ loadOut.rows # <<>>
             THEN Ret(<<find, load>>, {}, Frame(loadOut.rows))
        ELSE IF loadOut.kind = "badjson"
             THEN stock_list_fetch(self, <<find, load>>, {"parse"}, remoteOut, saveOut)
        ELSE stock_list_fetch(self, <<find, load>>, {}, remoteOut, saveOut)

stock_list_body_parse_aborts(self, findOut, loadOut, remoteOut, saveOut) ==
    LET find == [ExtCall("find", ListKey, NoDate, NoDate, "", <<>>, findOut)
                     EXCEPT !.max_age_hours = MaxAgeHours]
        load == ExtCall("load", ListKey, NoDate, NoDate, "", <<>>, loadOut)
    IN  IF ~(self.enable_cache /\ self.cache_manager)
        THEN stock_list_fetch(self, <<>>, {}, remoteOut, saveOut)
        ELSE IF findOut.kind = "raise" THEN Exc(<<find>>, {"find"})
        ELSE IF findOut.kind = "miss"
             THEN stock_list_fetch(self, <<find>>, {}, remoteOut, saveOut)
        ELSE IF loadOut.kind = "raise" THEN Exc(<<find, load>>, {"load"})
        ELSE IF loadOut.kind = "frame" /\ loadOut.rows # <<>>
             THEN Ret(<<find, load>>, {}, Frame(loadOut.rows))
        ELSE IF loadOut.kind = "json" /\ loadOut.rows # <<>>
             THEN Ret(<<find, load>>, {}, Frame(loadOut.rows))
        ELSE IF loadOut.kind = "badjson" THEN Exc(<<find, load>>, {"parse"})
        ELSE stock_list_fetch(self, <<find, load>>, {}, remoteOut, saveOut)

stock_list_body_read_error_is_miss(self, findOut, loadOut, remoteOut, saveOut) ==
    LET find == [ExtCall("find", ListKey, NoDate, NoDate, "", <<>>, findOut)
                     EXCEPT !.max_age_hours = MaxAgeHours]
        load == ExtCall("load", ListKey, NoDate, NoDate, "", <<>>, loadOut)
    IN  IF ~(self.enable_cache /\ self.cache_manager)
        THEN stock_list_fetch(self, <<>>, {}, remoteOut, saveOut)
        ELSE IF findOut.kind = "raise"
             THEN stock_list_fetch(self, <<find>>, {"find"}, remoteOut, saveOut)
        ELSE IF findOut.kind = "miss"
             THEN stock_list_fetch(self, <<find>>, {}, remoteOut, saveOut)
        ELSE IF loadOut.kind = "raise"
             THEN stock_list_fetch(self, <<find, load>>, {"load"}, remoteOut, saveOut)
        ELSE IF loadOut.kind = "frame" /\ loadOut.rows # <<>>
             THEN Ret(<<find, load>>, {}, Frame(loadOut.rows))
        ELSE IF loadOut.kind = "json" /\ loadOut.rows # <<>>
             THEN Ret(<<find, load>>, {}, Frame(loadOut.rows))
        ELSE IF loadOut.kind = "badjson"
             THEN stock_list_fetch(self, <<find, load>>, {"parse"}, remoteOut, saveOut)
        ELSE stock_list_fetch(self, <<find, load>>, {}, remoteOut, saveOut)

stock_list_body(self, findOut, loadOut, remoteOut, saveOut) ==
    LET find == [ExtCall("find", ListKey, NoDate, NoDate, "", <<>>, findOut)
                     EXCEPT !.max_age_hours = MaxAgeHours]
        load == ExtCall("load", ListKey, NoDate, NoDate, "", <<>>, loadOut)
    IN  IF ~(self.enable_cache /\ self.cache_manager)
        THEN stock_list_fetch(self, <<>>, {}, remoteOut, saveOut)
        ELSE IF findOut.kind = "raise" THEN Exc(<<find>>, {"find"})
        ELSE IF findOut.kind = "miss"
             THEN stock_list_fetch(self, <<find>>, {}, remoteOut, saveOut)
        ELSE IF loadOut.kind = "raise" THEN Exc(<<find, load>>, {"load"})
        ELSE IF loadOut.kind = "frame" /\ loadOut.rows # <<>>
             THEN Ret(<<find, load>>, {}, Frame(loadOut.rows))
        ELSE IF loadOut.kind = "json" /\ loadOut.rows # <<>>
             THEN Ret(<<find, load>>, {}, Frame(loadOut.rows))
        ELSE IF loadOut.kind = "badjson"
             THEN stock_list_fetch(self, <<find, load>>, {"parse"}, remoteOut, saveOut)
        ELSE stock_list_fetch(self, <<find, load>>, {}, remoteOut, saveOut)

get_stock_list_unguarded(self, findOut, loadOut, remoteOut, saveOut) ==
    TryExcept(stock_list_body(self, findOut, loadOut, remoteOut, saveOut), EmptyFrame)

get_stock_list(self, findOut, loadOut, remoteOut, saveOut) ==
    IF ~self.connected \/ ~self.api THEN Ret(<<>>, {}, EmptyFrame)
    ELSE TryExcept(stock_list_body(self, findOut, loadOut, remoteOut, saveOut),
                   EmptyFrame)

(***************************************************************************)
(* TushareProvider.get_stock_daily                                         *)
(***************************************************************************)
(* str.replace('-', '') on a date string *)
StripDashes(d) == IF d.fmt = "dash" THEN Compact(d.day) ELSE d

RECURSIVE InsertByDate(_, _)
InsertByDate(row, sorted) ==
    IF sorted = <<>> THEN <<row>>
    ELSE IF row.trade_date.day < Head(sorted).trade_date.day THEN <<row>> \o sorted
    ELSE <<Head(sorted)>> \o InsertByDate(row, Tail(sorted))

(* DataFrame.sort_values('trade_date') *)
RECURSIVE SortByDate(_)
SortByDate(rows) ==
    IF rows = <<>> THEN <<>>
    ELSE InsertByDate(rows[Len(rows)], SortByDate(SubSeq(rows, 1, Len(rows) - 1)))

(* data['trade_date'] = pd.to_datetime(data['trade_date']) *)
ToDatetime(rows) ==
    [i \in 1..Len(rows) |->
        [rows[i] EXCEPT !.trade_date = Timestamp(rows[i].trade_date.day)]]

stock_daily_fetch_keyed_by_ts_code(self, symbol, ts_code, start, end, remoteOut, saveOut) ==
    LET call == ExtCall("daily", StrArg(ts_code), start, end, "", <<>>, remoteOut)
        data == ToDatetime(SortByDate(remoteOut.rows))
        save == ExtCall("save", StrArg(ts_code), NoDate, NoDate, "tushare", data, saveOut)
    IN  IF remoteOut.kind = "raise" THEN Exc(<<call>>, {"remote"})
        ELSE IF remoteOut.kind = "none" THEN Ret(<<call>>, {}, EmptyFrame)
        ELSE IF remoteOut.kind = "malformed" THEN Exc(<<call>>, {"malformed"})
        ELSE IF remoteOut.rows = <<>> THEN Ret(<<call>>, {}, EmptyFrame)
        ELSE IF remoteOut.kind = "nodate" THEN Exc(<<call>>, {"malformed"})
        ELSE IF self.enable_cache /\ self.cache_manager
             THEN IF saveOut.kind = "raise"
                  THEN Ret(<<call, save>>, {"save"}, Frame(data))
                  ELSE Ret(<<call, save>>, {}, Frame(data))
             ELSE Ret(<<call>>, {}, Frame(data))

stock_daily_fetch_retries(self, symbol, ts_code, start, end, remoteOut, saveOut) ==
    LET call == ExtCall("daily", StrArg(ts_code), start, end, "", <<>>, remoteOut)
        data == ToDatetime(SortByDate(remoteOut.rows))
        save == ExtCall("save", symbol, NoDate, NoDate, "tushare", data, saveOut)
    IN  IF remoteOut.kind = "raise" THEN Exc(<<call, call>>, {"remote"})
        ELSE IF remoteOut.kind = "none" THEN Ret(<<call>>, {}, EmptyFrame)
        ELSE IF remoteOut.kind = "malformed" THEN Exc(<<call>>, {"malformed"})
        ELSE IF remoteOut.rows = <<>> THEN Ret(<<call>>, {}, EmptyFrame)
        ELSE IF remoteOut.kind = "nodate" THEN Exc(<<call>>, {"malformed"})
        ELSE IF self.enable_cache /\ self.cache_manager
             THEN IF saveOut.kind = "raise"
                  THEN Ret(<<call, save>>, {"save"}, Frame(data))
                  ELSE Ret(<<call, save>>, {}, Frame(data))
             ELSE Ret(<<call>>, {}, Frame(data))

stock_daily_fetch(self, symbol, ts_code, start, end, remoteOut, saveOut) ==
    LET call == ExtCall("daily", StrArg(ts_code), start, end, "", <<>>, remoteOut)
        data == ToDatetime(SortByDate(remoteOut.rows))
        save == ExtCall("save", symbol, NoDate, NoDate, "tushare", data, saveOut)
    IN  IF remoteOut.kind = "raise" THEN Exc(<<call>>, {"remote"})
        ELSE IF remoteOut.kind = "none" THEN Ret(<<call>>, {}, EmptyFrame)
        ELSE IF remoteOut.kind = "malformed" THEN Exc(<<call>>, {"malformed"})
        ELSE IF remoteOut.rows = <<>> THEN Ret(<<call>>, {}, EmptyFrame)
        ELSE IF remoteOut.kind = "nodate" THEN Exc(<<call>>, {"malformed"})
        ELSE IF self.enable_cache /\ self.cache_manager
             THEN IF saveOut.kind = "raise"
                  THEN Ret(<<call, save>>, {"save"}, Frame(data))
                  ELSE Ret(<<call, save>>, {}, Frame(data))
             ELSE Ret(<<call>>, {}, Frame(data))

stock_daily_body(self, symbol, start_date, end_date, now1, now2, remoteOut, saveOut) ==
    IF ~symbol.isStr THEN Exc(<<>>, {"arg"})
    ELSE IF end_date.fmt = "bad" THEN Exc(<<>>, {"arg"})
    ELSE IF start_date.fmt = "bad" THEN Exc(<<>>, {"arg"})
    ELSE LET ts_code == normalize_symbol(symbol.s)
             end == IF end_date = NoDate THEN Compact(now1) ELSE StripDashes(end_date)
             start == IF start_date = NoDate THEN Compact(now2 - 365)
                      ELSE StripDashes(start_date)
         IN  stock_daily_fetch(self, symbol, ts_code, start, end, remoteOut, saveOut)

get_stock_daily(self, symbol, start_date, end_date, now1, now2, remoteOut, saveOut) ==
    IF ~self.connected \/ ~self.api THEN Ret(<<>>, {}, EmptyFrame)
    ELSE TryExcept(stock_daily_body(self, symbol, start_date, end_date, now1, now2,
                                    remoteOut, saveOut), EmptyFrame)

(***************************************************************************)
(* TushareProvider.get_stock_info                                          *)
(***************************************************************************)
(* The two characters U+80A1 U+7968 that the placeholder name starts with. *)
StockPrefix == "GuPiao"

Placeholder(symbol) ==
    [symbol |-> symbol, ts_code |-> <<>>,
     name |-> [prefix |-> StockPrefix, text |-> symbol],
     source |-> "unknown", keys |-> {"symbol", "name", "source"}]

InfoOf_normalized(symbol, row) ==
    [symbol |-> StrArg(row.ts_code), ts_code |-> row.ts_code,
     name |-> [prefix |-> "", text |-> StrArg(row.name)],
     source |-> "tushare",
     keys |-> {"symbol", "ts_code", "name", "area", "industry", "market",
               "list_date", "source"}]

InfoOf(symbol, row) ==
    [symbol |-> symbol, ts_code |-> row.ts_code,
     name |-> [prefix |-> "", text |-> StrArg(row.name)],
     source |-> "tushare",
     keys |-> {"symbol", "ts_code", "name", "area", "industry", "market",
               "list_date", "source"}]

stock_info_body(self, symbol, remoteOut) ==
    IF ~symbol.isStr THEN Exc(<<>>, {"arg"})
    ELSE LET ts_code == normalize_symbol(symbol.s)
             call == ExtCall("stock_basic", StrArg(ts_code), NoDate, NoDate, "", <<>>,
                             remoteOut)
         IN  IF remoteOut.kind = "raise" THEN Exc(<<call>>, {"remote"})
             ELSE IF remoteOut.kind = "none"
                  THEN Ret(<<call>>, {}, InfoDict(Placeholder(symbol)))
             ELSE IF remoteOut.kind = "malformed" THEN Exc(<<call>>, {"malformed"})
             ELSE IF remoteOut.rows = <<>>
                  THEN Ret(<<call>>, {}, InfoDict(Placeholder(symbol)))
             ELSE Ret(<<call>>, {}, InfoDict(InfoOf(symbol, remoteOut.rows[1])))

get_stock_info(self, symbol, remoteOut) ==
    IF ~self.connected \/ ~self.api THEN Ret(<<>>, {}, InfoDict(Placeholder(symbol)))
    ELSE TryExcept(stock_info_body(self, symbol, remoteOut),
                   InfoDict(Placeholder(symbol)))

(***************************************************************************)
(* TushareProvider.get_financial_data                                      *)
(***************************************************************************)
(* One statement's try block: the endpoint call and the conversion        *)
(* x.to_dict('records') if x is not None and not x.empty else [].         *)
statement_fetch(fn, ts_code, period, out) ==
    LET call == ExtCall(fn, StrArg(ts_code), period, NoDate, "", <<>>, out)
    IN  IF out.kind = "raise" THEN [exc |-> TRUE, call |-> call, records |-> <<>>]
        ELSE IF out.kind = "none" THEN [exc |-> FALSE, call |-> call, records |-> <<>>]
        ELSE IF out.kind = "malformed" THEN [exc |-> TRUE, call |-> call, records |-> <<>>]
        ELSE [exc |-> FALSE, call |-> call, records |-> out.rows]

Logged(step, tag) == IF step.exc THEN {tag} ELSE {}

financial_body_one_try(self, symbol, period, bsOut, incOut, cfOut) ==
    IF ~symbol.isStr THEN Exc(<<>>, {"arg"})
    ELSE LET ts_code == normalize_symbol(symbol.s)
             bs == statement_fetch("balancesheet", ts_code, period, bsOut)
             inc == statement_fetch("income", ts_code, period, incOut)
             cf == statement_fetch("cashflow", ts_code, period, cfOut)
         IN  IF bs.exc THEN Exc(<<bs.call>>, {"balance_sheet"})
             ELSE IF inc.exc THEN Exc(<<bs.call, inc.call>>, {"income_statement"})
             ELSE IF cf.exc THEN Exc(<<bs.call, inc.call, cf.call>>, {"cash_flow"})
             ELSE Ret(<<bs.call, inc.call, cf.call>>, {},
                      FinDict([keys |-> {"balance_sheet", "income_statement", "cash_flow"},
                               balance_sheet |-> bs.records,
                               income_statement |-> inc.records,
                               cash_flow |-> cf.records]))

financial_body(self, symbol, period, bsOut, incOut, cfOut) ==
    IF ~symbol.isStr THEN Exc(<<>>, {"arg"})
    ELSE LET ts_code == normalize_symbol(symbol.s)
             bs == statement_fetch("balancesheet", ts_code, period, bsOut)
             inc == statement_fetch("income", ts_code, period, incOut)
             cf == statement_fetch("cashflow", ts_code, period, cfOut)
         IN  Ret(<<bs.call, inc.call, cf.call>>,
                 Logged(bs, "balance_sheet") \cup Logged(inc, "income_statement")
                     \cup Logged(cf, "cash_flow"),
                 FinDict([keys |-> {"balance_sheet", "income_statement", "cash_flow"},
                          balance_sheet |-> bs.records,
                          income_statement |-> inc.records,
                          cash_flow |-> cf.records]))

get_financial_data(self, symbol, period, bsOut, incOut, cfOut) ==
    IF ~self.connected \/ ~self.api THEN Ret(<<>>, {}, FinDict(NoFin))
    ELSE TryExcept(financial_body(self, symbol, period, bsOut, incOut, cfOut),
                   FinDict(NoFin))

(***************************************************************************)
(* TushareProvider.search_stocks                                           *)
(***************************************************************************)
(* Series.str.contains(keyword) searches the keyword as a regular         *)
(* expression: '.' is any character, 'x*' any number of x, and an         *)
(* unclosed '(' or a '*' with nothing to repeat does not compile.         *)
RegexCompiles(pat) ==
    /\ ~Contains(pat, "(")
    /\ \A i \in 1..Len(pat) : pat[i] = "*" => (i > 1 /\ pat[i - 1] # "*")

AtomMatches(a, c) == a = "." \/ a = c

RECURSIVE RegexMatchAt(_, _)
RegexMatchAt(pat, text) ==
    IF pat = <<>> THEN TRUE
    ELSE IF Len(pat) >= 2 /\ pat[2] = "*"
         THEN \/ RegexMatchAt(SubSeq(pat, 3, Len(pat)), text)
              \/ /\ text # <<>>
                 /\ AtomMatches(pat[1], text[1])
                 /\ RegexMatchAt(pat, Tail(text))
    ELSE /\ text # <<>>
         /\ AtomMatches(pat[1], text[1])
         /\ RegexMatchAt(Tail(pat), Tail(text))

RegexSearch(pat, text) ==
    \E i \in 0..Len(text) : RegexMatchAt(pat, SubSeq(text, i + 1, Len(text)))

RowMatches(keyword, row) ==
    \/ RegexSearch(keyword, row.name)
    \/ RegexSearch(keyword, row.symbol)
    \/ RegexSearch(keyword, row.ts_code)

RECURSIVE FilterRows(_, _)
FilterRows(keyword, rows) ==
    IF rows = <<>> THEN <<>>
    ELSE IF RowMatches(keyword, Head(rows))
         THEN <<Head(rows)>> \o FilterRows(keyword, Tail(rows))
         ELSE FilterRows(keyword, Tail(rows))

search_stocks_body(self, keyword, findOut, loadOut, remoteOut, saveOut) ==
    LET listing == get_stock_list(self, findOut, loadOut, remoteOut, saveOut)
    IN  IF listing.value.rows = <<>> THEN Ret(listing.ext, listing.caught, EmptyFrame)
        ELSE IF ~keyword.isStr THEN Exc(listing.ext, listing.caught \cup {"arg"})
        ELSE IF ~RegexCompiles(keyword.s) THEN Exc(listing.ext, listing.caught \cup {"arg"})
        ELSE Ret(listing.ext, listing.caught,
                 Frame(FilterRows(keyword.s, listing.value.rows)))

search_stocks(self, keyword, findOut, loadOut, remoteOut, saveOut) ==
    TryExcept(search_stocks_body(self, keyword, findOut, loadOut, remoteOut, saveOut),
              EmptyFrame)

(***************************************************************************)
(* ChatDeepSeek (llm_adapters/deepseek_adapter.py).  Values.               *)
(***************************************************************************)
Msg(type, content) == [type |-> type, content |-> content]
HumanMessage(content) == Msg("human", content)
AIMessage(content) == Msg("ai", content)
SystemMessage(content) == Msg("system", content)

(* A keyword value: None, or a value. *)
NoneVal == [none |-> TRUE, v |-> ""]
Val(v) == [none |-> FALSE, v |-> v]

(* A token count of a usage block: None is <<>>, the integer n is <<n>>. *)
NoneTok == <<>>
Tok(n) == <<n>>

NoUsage == [present |-> FALSE, prompt_tokens |-> Tok(0), completion_tokens |-> Tok(0)]
Usage(p, c) == [present |-> TRUE, prompt_tokens |-> p, completion_tokens |-> c]
ChatResult(gens, usage) == [generations |-> gens, usage |-> usage]
NoResult == ChatResult(<<>>, NoUsage)

(* What super()._generate answers: an exception, or a ChatResult. *)
Raised(exc) == [kind |-> "raise", exc |-> exc, result |-> NoResult]
Returned(result) == [kind |-> "return", exc |-> "", result |-> result]

RECURSIVE TotalChars(_)
TotalChars(msgs) ==
    IF msgs = <<>> THEN 0 ELSE Len(Head(msgs).content) + TotalChars(Tail(msgs))

Max(a, b) == IF a >= b THEN a ELSE b

RECURSIVE HalvedChars(_)
HalvedChars(msgs) ==
    IF msgs = <<>> THEN 0
    ELSE (Len(Head(msgs).content) \div 2) + HalvedChars(Tail(msgs))

estimate_input_tokens_per_message(messages) == Max(1, HalvedChars(messages))

(* ChatDeepSeek._estimate_input_tokens *)
estimate_input_tokens(messages) == Max(1, TotalChars(messages) \div 2)

estimate_output_tokens_unfloored(result) == TotalChars(result.generations) \div 2

(* ChatDeepSeek._estimate_output_tokens *)
estimate_output_tokens(result) == Max(1, TotalChars(result.generations) \div 2)

(* kwargs.pop(key, None) *)
PopValue(kwargs, key) == IF key \in DOMAIN kwargs THEN kwargs[key] ELSE NoneVal
Without(kwargs, key) == [k \in DOMAIN kwargs \ {key} |-> kwargs[k]]

(* hash(str(messages)): an integer, negative or not, that depends on the  *)
(* text of the message list and on the interpreter's hash seed.           *)
RECURSIVE TextCode(_)
TextCode(msgs) ==
    IF msgs = <<>> THEN 7
    ELSE LET m == msgs[Len(msgs)]
             t == IF m.type = "human" THEN 1 ELSE IF m.type = "ai" THEN 2
                  ELSE IF m.type = "system" THEN 3 ELSE 4
         IN  13 * TextCode(SubSeq(msgs, 1, Len(msgs) - 1)) + 5 * Len(m.content) + t

hash(seed, msgs) == (TextCode(msgs) * 977 + seed * 40503) - 500000

SessionDefault_unreduced(seed, messages) ==
    [default |-> TRUE, v |-> "deepseek_", n |-> hash(seed, messages)]

(* f"deepseek_{hash(str(messages))%10000}" *)
SessionDefault(seed, messages) ==
    [default |-> TRUE, v |-> "deepseek_", n |-> hash(seed, messages) % 10000]

SessionGiven(val) == [default |-> FALSE, v |-> val.v, n |-> 0]

ModelName == "deepseek-chat"

(* The outcome of one _generate call. *)
GenDone(raised, exc, result, sent, tracked, logged, logs) ==
    [raised |-> raised, exc |-> exc, result |-> result, sent |-> sent,
     tracked |-> tracked, logged |-> logged, logs |-> logs]

(* Lines 126-160: the inner try around token_tracker.track_usage. *)
track_usage_step(seed, messages, session_id, analysis_type, input_tokens, output_tokens, result, sent, logs, trackOut, logOut) ==
    LET call == [provider |-> "deepseek", model_name |-> ModelName,
                 input_tokens |-> input_tokens, output_tokens |-> output_tokens,
                 session_id |-> IF session_id.none THEN SessionDefault(seed, messages)
                                ELSE SessionGiven(session_id),
                 analysis_type |-> IF analysis_type.none THEN "stock_analysis"
                                   ELSE analysis_type.v,
                 out |-> trackOut]
        log == [provider |-> "deepseek", model_name |-> ModelName,
                input_tokens |-> input_tokens, output_tokens |-> output_tokens,
                cost |-> trackOut.cost, session_id |-> call.session_id,
                out |-> logOut]
    IN  IF trackOut.kind = "raise"
        THEN GenDone(FALSE, "", result, sent, <<call>>, <<>>, logs \cup {"track_error"})
        ELSE IF trackOut.kind = "none"
        THEN GenDone(FALSE, "", result, sent, <<call>>, <<>>, logs \cup {"no_record"})
        ELSE GenDone(FALSE, "", result, sent, <<call>>, <<log>>,
                     logs \cup (IF trackOut.cost = 0 THEN {"zero_cost"} ELSE {"cost"})
                          \cup (IF logOut = "raise" THEN {"track_error"} ELSE {}))

(* Lines 105-122: the counts of the usage block, or the estimates when    *)
(* both extracted counts equal 0.                                         *)
extracted_tokens(result) ==
    IF result.usage.present
    THEN <<result.usage.prompt_tokens, result.usage.completion_tokens>>
    ELSE <<Tok(0), Tok(0)>>

usage_tokens(messages, result) ==
    LET ex == extracted_tokens(result)
    IN  IF ex[1] = Tok(0) /\ ex[2] = Tok(0)
        THEN [estimated |-> TRUE,
              input_tokens |-> Tok(estimate_input_tokens(messages)),
              output_tokens |-> Tok(estimate_output_tokens(result))]
        ELSE [estimated |-> FALSE, input_tokens |-> ex[1], output_tokens |-> ex[2]]

forwarded_kwargs_keeps_analysis_type(kwargs) == Without(kwargs, "session_id")

(* Lines 98-99: what is left of kwargs after the two pops. *)
forwarded_kwargs(kwargs) == Without(Without(kwargs, "session_id"), "analysis_type")

reraise_wrapped(exc) == "RuntimeError"

(* Lines 164-166: the handler logs and re-raises the exception in flight. *)
reraise(exc) == exc

(***************************************************************************)
(* ChatDeepSeek._generate.  tracker_on is TOKEN_TRACKING_ENABLED and       *)
(* token_tracker is not None; comparing a None count with 0 raises         *)
(* TypeError inside the outer try, whose handler logs and re-raises.       *)
(***************************************************************************)
generate(tracker_on, seed, messages, stop, kwargs, resp, trackOut, logOut) ==
    LET session_id == PopValue(kwargs, "session_id")
        analysis_type == PopValue(kwargs, "analysis_type")
        forwarded == forwarded_kwargs(kwargs)
        sent == <<[messages |-> messages, stop |-> stop, kwargs |-> forwarded]>>
        result == resp.result
        u == usage_tokens(messages, result)
        logs == IF u.estimated THEN {"estimated"} ELSE {"actual"}
        track == track_usage_step(seed, messages, session_id, analysis_type,
                                  u.input_tokens, u.output_tokens, result, sent, logs,
                                  trackOut, logOut)
    IN  IF resp.kind = "raise"
        THEN GenDone(TRUE, reraise(resp.exc), NoResult, sent, <<>>, <<>>, {"call_failed"})
        ELSE IF ~tracker_on THEN GenDone(FALSE, "", result, sent, <<>>, <<>>, logs)
        ELSE IF u.input_tokens = NoneTok
             THEN GenDone(TRUE, reraise("TypeError"), NoResult, sent, <<>>, <<>>,
                          logs \cup {"call_failed"})
        ELSE IF u.input_tokens[1] > 0 THEN track
        ELSE IF u.output_tokens = NoneTok
             THEN GenDone(TRUE, reraise("TypeError"), NoResult, sent, <<>>, <<>>,
                          logs \cup {"call_failed"})
        ELSE IF u.output_tokens[1] > 0 THEN track
        ELSE GenDone(FALSE, "", result, sent, <<>>, <<>>, logs)

(***************************************************************************)
(* ChatDeepSeek.invoke: the input's conversion to a message list.          *)
(***************************************************************************)
(* An item of an input sequence: a message object, a str, a (role,        *)
(* content) pair, a tuple of three strings, or another object (an int).   *)
MsgItem(type, content) == [kind |-> "msg", role |-> type, content |-> content, n |-> 0]
StrItem(content) == [kind |-> "str", role |-> "", content |-> content, n |-> 0]
PairItem(role, content) == [kind |-> "pair", role |-> role, content |-> content, n |-> 0]
TripleItem(role, content) ==
    [kind |-> "triple", role |-> role, content |-> content, n |-> 0]
IntItem(n) == [kind |-> "obj", role |-> "", content |-> <<>>, n |-> n]

RoleChars(role) ==
    IF role = "human" THEN <<"h", "u", "m", "a", "n">>
    ELSE IF role = "ai" THEN <<"a", "i">>
    ELSE IF role = "system" THEN <<"s", "y", "s", "t", "e", "m">>
    ELSE <<"t", "o", "o", "l">>

Digits == <<"0", "1", "2", "3", "4", "5", "6", "7", "8", "9">>
Quoted(s) == <<"'">> \o s \o <<"'">>

(* str(item) *)
StrOf(item) ==
    IF item.kind = "str" THEN item.content
    ELSE IF item.kind = "obj" THEN <<Digits[item.n + 1]>>
    ELSE IF item.kind = "pair"
         THEN <<"(">> \o Quoted(RoleChars(item.role)) \o <<",", " ">>
                  \o Quoted(item.content) \o <<")">>
    ELSE <<"(">> \o Quoted(RoleChars(item.role)) \o <<",", " ">>
             \o Quoted(item.content) \o <<",", " ">> \o Quoted(item.content)
             \o <<")">>

convert_item_wraps_pair(item) ==
    IF item.kind = "msg" THEN Msg(item.role, item.content)
    ELSE IF item.kind = "str" THEN HumanMessage(item.content)
    ELSE IF item.kind = "pair"
         THEN IF item.role = "human" THEN HumanMessage(item.content)
              ELSE IF item.role = "ai" THEN AIMessage(item.content)
              ELSE IF item.role = "system" THEN SystemMessage(item.content)
              ELSE HumanMessage(StrOf(item))
    ELSE HumanMessage(StrOf(item))

(* Lines 241-256: one element of the input sequence. *)
convert_item(item) ==
    IF item.kind = "msg" THEN Msg(item.role, item.content)
    ELSE IF item.kind = "str" THEN HumanMessage(item.content)
    ELSE IF item.kind = "pair"
         THEN IF item.role = "human" THEN HumanMessage(item.content)
              ELSE IF item.role = "ai" THEN AIMessage(item.content)
              ELSE IF item.role = "system" THEN SystemMessage(item.content)
              ELSE HumanMessage(item.content)
    ELSE HumanMessage(StrOf(item))

(* An input of invoke: a str, a list, another iterable (a tuple), a       *)
(* PromptValue holding messages, or an object that cannot be iterated.    *)
StrInput(text) == [shape |-> "str", text |-> text, items |-> <<>>, n |-> 0]
ListInput(items) == [shape |-> "list", text |-> <<>>, items |-> items, n |-> 0]
TupleInput(items) == [shape |-> "tuple", text |-> <<>>, items |-> items, n |-> 0]
PromptInput(items) == [shape |-> "prompt", text |-> <<>>, items |-> items, n |-> 0]
IntInput(n) == [shape |-> "int", text |-> <<>>, items |-> <<>>, n |-> n]

(* Lines 225-260. *)
to_messages(input) ==
    IF input.shape = "str" THEN <<HumanMessage(input.text)>>
    ELSE IF input.shape = "list" /\ \A i \in 1..Len(input.items) : input.items[i].kind = "msg"
         THEN [i \in 1..Len(input.items) |->
                  Msg(input.items[i].role, input.items[i].content)]
    ELSE IF input.shape = "prompt"
         THEN [i \in 1..Len(input.items) |->
                  Msg(input.items[i].role, input.items[i].content)]
    ELSE IF input.shape = "int" THEN <<HumanMessage(<<Digits[input.n + 1]>>)>>
    ELSE [i \in 1..Len(input.items) |-> convert_item(input.items[i])]

first_message_unconverted(result) ==
    IF result.generations # <<>> THEN result.generations[1] ELSE AIMessage(<<>>)

(* Lines 265-275: the first generation's message as an AIMessage. *)
first_message(result) ==
    IF result.generations # <<>>
    THEN IF result.generations[1].type = "ai" THEN result.generations[1]
         ELSE AIMessage(result.generations[1].content)
    ELSE AIMessage(<<>>)

NoReply == Msg("none", <<>>)

(* ChatDeepSeek.invoke: _generate(messages, **kwargs), where a stop       *)
(* keyword binds _generate's stop parameter.                              *)
invoke(tracker_on, seed, input, kwargs, resp, trackOut, logOut) ==
    LET messages == to_messages(input)
        g == generate(tracker_on, seed, messages, PopValue(kwargs, "stop"),
                      Without(kwargs, "stop"), resp, trackOut, logOut)
    IN  [gen |-> g, messages |-> messages,
         reply |-> IF g.raised THEN NoReply ELSE first_message(g.result)]


(***************************************************************************)
(* The inputs of the provider's operations.                                *)
(***************************************************************************)
RowA == ListRow(<<"6", "0", ".", "S", "H">>, <<"6", "0">>, <<"a", "(">>)
RowB == ListRow(<<"0", "1", ".", "S", "Z">>, <<"0", "1">>, <<"b">>)
ListTables == {<<>>, <<RowA>>, <<RowA, RowB>>}
CachedTables == {<<>>, <<RowB>>, <<RowB, RowA>>}

Day1 == DailyRow(<<"6", "0", ".", "S", "H">>, 398)
Day2 == DailyRow(<<"6", "0", ".", "S", "H">>, 399)
DailyTables == {<<>>, <<Day2>>, <<Day2, Day1>>}

FinTables == {<<>>, <<RowA>>}

Failures == {Raises, Out("none", <<>>), Out("malformed", <<>>)}
FindOuts == {Raises, Out("miss", <<>>), Out("hit", <<>>)}
LoadOuts ==
    {Raises, Out("none", <<>>), Out("badjson", <<>>), Out("csv", <<>>),
     Out("blank", <<>>), Out("other", <<>>)}
        \cup {Out("frame", t) : t \in CachedTables}
        \cup {Out("json", t) : t \in CachedTables}
SaveOuts == {Raises, Out("ok", <<>>)}
ListOuts == Failures \cup {Out("frame", t) : t \in ListTables}
DailyOuts ==
    Failures \cup {Out("frame", t) : t \in DailyTables} \cup {Out("nodate", <<Day2>>)}
InfoOuts == Failures \cup {Out("frame", t) : t \in ListTables}
FinOuts == Failures \cup {Out("frame", t) : t \in FinTables}

SymbolArgs ==
    {StrArg(<<"6", "0">>), StrArg(<<"s", "h", ".", "6", "0">>),
     StrArg(<<"0", "1", ".", "S", "Z">>), StrArg(<<"9">>), NoneArg}
DateArgs == {NoDate, Dashed(390), Compact(395), [fmt |-> "bad", day |-> 0]}
Clock == {<<400, 400>>, <<400, 401>>, <<401, 401>>}
Periods == {Compact(300)}
KeywordArgs ==
    {StrArg(<<"0">>), StrArg(<<".">>), StrArg(<<"(">>), StrArg(<<"6", "*">>),
     StrArg(<<"*">>), StrArg(<<"b">>), StrArg(<<>>), NoneArg}

Providers ==
    {TushareProvider(tk, env, ec, ca, gc, ta, pa) :
        tk \in BOOLEAN, env \in BOOLEAN, ec \in BOOLEAN, ca \in BOOLEAN,
        gc \in BOOLEAN, ta \in BOOLEAN, pa \in BOOLEAN}

(***************************************************************************)
(* The cache facade (dataflows/cache_manager.py), as the caller sees it:   *)
(* find(symbol, max_age_hours) gives a key when an entry for the symbol    *)
(* is not older than the max age, load(key) gives the entry's payload,     *)
(* save(symbol, data, source) creates the entry; each of them may raise.   *)
(* The listing's entry is its age, its payload and whether it was saved    *)
(* by the latest successful get_stock_list or before it; of the daily      *)
(* bars, which are never read back, the saved symbols are kept; the cache  *)
(* keeps at most MaxSaved of them and evicts the others.                   *)
(***************************************************************************)
Entry(age, payload, since) == [age |-> age, payload |-> payload, since |-> since]
NoEntry == Entry("absent", Out("none", <<>>), "before")
NoCache == [list |-> NoEntry, saved |-> {}]

find_cached_stock_data(c) ==
    IF c.list.age = "fresh" THEN Out("hit", <<>>) ELSE Out("miss", <<>>)

load_stock_data(c) == c.list.payload

save_stock_data(c, call) ==
    IF call.fn # "save" \/ call.out.kind = "raise" THEN c
    ELSE IF call.sym = ListKey
         THEN [c EXCEPT !.list = Entry("fresh", Out("frame", call.data), "with")]
    ELSE IF Cardinality(c.saved \cup {call.sym}) > MaxSaved
         THEN [c EXCEPT !.saved = {call.sym}]
    ELSE [c EXCEPT !.saved = @ \cup {call.sym}]

FindAnswers(c) == {Raises, find_cached_stock_data(c)}
LoadAnswers(c) == {Raises, load_stock_data(c)}

(* The cache after the saves of a call's external calls. *)
RECURSIVE CacheAfter(_, _)
CacheAfter(c, ext) ==
    IF ext = <<>> THEN c ELSE CacheAfter(save_stock_data(c, Head(ext)), Tail(ext))

Saved(ext) == \E i \in 1..Len(ext) : ext[i].fn = "save" /\ ext[i].out.kind # "raise"

Fetched(ext) == \E i \in 1..Len(ext) : ext[i].fn = "stock_basic"

(* get_stock_list returned a listing: fetched, or read from the cache. *)
ListingReturned(ext) ==
    \E i \in 1..Len(ext) :
        /\ ext[i].out.kind \in {"frame", "json"}
        /\ ext[i].out.rows # <<>>
        /\ \/ ext[i].fn = "stock_basic"
           \/ ext[i].fn = "load" /\ ~Fetched(ext)

(* The cache after a call of get_stock_list: an entry that the call did   *)
(* not save is older than the listing the call returned.                  *)
CacheAfterListing(c, ext) ==
    IF ListingReturned(ext) /\ ~Saved(ext)
    THEN [c EXCEPT !.list.since = "before"]
    ELSE CacheAfter(c, ext)

(***************************************************************************)
(* The provider's calls.                                                   *)
(***************************************************************************)
PIdle ==
    [op |-> "none", symbol |-> NoneArg, keyword |-> NoneArg, start_date |-> NoDate,
     end_date |-> NoDate, now |-> <<0, 0>>, ext |-> <<>>, caught |-> {},
     raised |-> FALSE, result |-> NoValue, before |-> NoCache, was_listed |-> FALSE]

PDone(op, symbol, keyword, start_date, end_date, now, r) ==
    [op |-> op, symbol |-> symbol, keyword |-> keyword, start_date |-> start_date,
     end_date |-> end_date, now |-> now, ext |-> r.ext, caught |-> r.caught,
     raised |-> r.exc, result |-> r.value, before |-> cache, was_listed |-> listed]

GetStockList ==
    /\ pcall.op = "none"
    /\ \E f \in FindAnswers(cache), l \in LoadAnswers(cache), r \in ListOuts,
          s \in SaveOuts :
          LET res == get_stock_list(provider, f, l, r, s)
          IN  /\ pcall' = PDone("get_stock_list", NoneArg, NoneArg, NoDate, NoDate,
                                <<0, 0>>, res)
              /\ cache' = CacheAfterListing(cache, res.ext)
              /\ listed' = (listed \/ ListingReturned(res.ext))
    /\ UNCHANGED <<provider, chatvars, normvars, globvars, llmvars>>

GetStockDaily ==
    /\ pcall.op = "none"
    /\ \E sym \in SymbolArgs, sd \in DateArgs, ed \in DateArgs, now \in Clock,
          r \in DailyOuts, s \in SaveOuts :
          LET res == get_stock_daily(provider, sym, sd, ed, now[1], now[2], r, s)
              read == <<IF ed = NoDate THEN now[1] ELSE 0,
                        IF sd = NoDate THEN now[2] ELSE 0>>
          IN  /\ pcall' = PDone("get_stock_daily", sym, NoneArg, sd, ed, read, res)
              /\ cache' = CacheAfter(cache, res.ext)
    /\ UNCHANGED <<provider, listed, chatvars, normvars, globvars, llmvars>>

GetStockInfo ==
    /\ pcall.op = "none"
    /\ \E sym \in SymbolArgs, r \in InfoOuts :
          pcall' = PDone("get_stock_info", sym, NoneArg, NoDate, NoDate, <<0, 0>>,
                         get_stock_info(provider, sym, r))
    /\ UNCHANGED <<provider, cachevars, chatvars, normvars, globvars, llmvars>>

GetFinancialData ==
    /\ pcall.op = "none"
    /\ \E sym \in SymbolArgs, per \in Periods, bs \in FinOuts, inc \in FinOuts,
          cf \in FinOuts :
          pcall' = PDone("get_financial_data", sym, NoneArg, per, NoDate, <<0, 0>>,
                         get_financial_data(provider, sym, per, bs, inc, cf))
    /\ UNCHANGED <<provider, cachevars, chatvars, normvars, globvars, llmvars>>

SearchStocks ==
    /\ pcall.op = "none"
    /\ \E kw \in KeywordArgs, f \in FindAnswers(cache), l \in LoadAnswers(cache),
          r \in ListOuts, s \in SaveOuts :
          LET res == search_stocks(provider, kw, f, l, r, s)
          IN  /\ pcall' = PDone("search_stocks", NoneArg, kw, NoDate, NoDate, <<0, 0>>,
                                res)
              /\ cache' = CacheAfterListing(cache, res.ext)
              /\ listed' = (listed \/ ListingReturned(res.ext))
    /\ UNCHANGED <<provider, chatvars, normvars, globvars, llmvars>>

(* The caller takes the result; the call's state is gone. *)
PReturn ==
    /\ pcall.op # "none"
    /\ pcall' = PIdle
    /\ UNCHANGED <<provider, cachevars, chatvars, normvars, globvars, llmvars>>

(* Between two calls an entry of the cache gets older than its max age.   *)
(* The listing's entry cannot do so while it is the one saved by a        *)
(* get_stock_list of the last 24 hours.                                   *)
Expire ==
    /\ pcall.op = "none"
    /\ \/ /\ cache.list.age = "fresh"
          /\ cache.list.since = "before" \/ ~listed
          /\ cache' = [cache EXCEPT !.list = Entry("stale", Out("none", <<>>), "before")]
       \/ \E k \in cache.saved : cache' = [cache EXCEPT !.saved = @ \ {k}]
    /\ UNCHANGED <<provider, pcall, listed, chatvars, normvars, globvars, llmvars>>

(* 24 hours have passed since get_stock_list last returned a listing: the *)
(* listing's entry, which is not younger, is older than 24 hours too.     *)
DayPasses ==
    /\ pcall.op = "none"
    /\ listed
    /\ listed' = FALSE
    /\ cache' = [cache EXCEPT !.list = IF @.age = "fresh"
                                       THEN Entry("stale", Out("none", <<>>), "before")
                                       ELSE @]
    /\ UNCHANGED <<provider, pcall, chatvars, normvars, globvars, llmvars>>

(* What the cache may hold when the process starts. *)
Caches ==
    {NoCache}
        \cup {[list |-> Entry("fresh", p, "before"), saved |-> {}] :
                 p \in LoadOuts \ {Raises}}

(***************************************************************************)
(* The inputs of the chat adapter's operations.                            *)
(***************************************************************************)
SeqsUpTo(S, n) == UNION {[1..k -> S] : k \in 0..n}

MsgPool == {HumanMessage(<<"x">>), SystemMessage(<<"x", "y", "z">>)}
MessageLists == SeqsUpTo(MsgPool, MaxMsgs)

GenPool == {AIMessage(<<"x", "y", "z">>), Msg("chat", <<"x">>)}
TokVals == {NoneTok} \cup {Tok(n) : n \in 0..MaxTok}
Usages == {NoUsage} \cup {Usage(p, c) : p \in TokVals, c \in TokVals}
Responses ==
    {Raised("APIError"), Raised("Timeout")}
        \cup {Returned(ChatResult(g, u)) : g \in SeqsUpTo(GenPool, MaxGen), u \in Usages}

TrackOuts ==
    {[kind |-> "raise", cost |-> 0], [kind |-> "none", cost |-> 0],
     [kind |-> "record", cost |-> 0], [kind |-> "record", cost |-> 3]}
LogOuts == {"ok", "raise"}

NoKwargs == [k \in {} |-> NoneVal]
KwargsSets ==
    {NoKwargs,
     [k \in {"session_id"} |-> Val("s1")],
     [k \in {"temperature"} |-> Val("0.5")],
     [k \in {"session_id", "temperature"} |->
         IF k = "session_id" THEN NoneVal ELSE Val("0.5")],
     [k \in {"analysis_type", "temperature"} |->
         IF k = "analysis_type" THEN Val("t1") ELSE Val("0.5")],
     [k \in {"session_id", "analysis_type", "temperature"} |->
         IF k = "session_id" THEN Val("s1")
         ELSE IF k = "analysis_type" THEN Val("t1") ELSE Val("0.5")]}
StopArgs == {NoneVal, Val("END")}
InvokeKwargs ==
    KwargsSets
        \cup {[k \in {"stop", "session_id"} |->
                  IF k = "stop" THEN Val("END") ELSE Val("s1")],
              [k \in {"stop", "analysis_type", "temperature"} |->
                  IF k = "stop" THEN Val("END")
                  ELSE IF k = "analysis_type" THEN Val("t1") ELSE Val("0.5")]}

Inputs ==
    {StrInput(<<"x">>), StrInput(<<>>), IntInput(5),
     ListInput(<<>>),
     ListInput(<<MsgItem("system", <<"x">>), MsgItem("human", <<"x", "y", "z">>)>>),
     PromptInput(<<MsgItem("human", <<"x">>)>>),
     ListInput(<<PairItem("system", <<"x">>), StrItem(<<"x", "y", "z">>)>>),
     ListInput(<<MsgItem("ai", <<"x">>), PairItem("tool", <<"x">>)>>),
     ListInput(<<PairItem("human", <<"x">>), PairItem("ai", <<>>), IntItem(7)>>),
     TupleInput(<<MsgItem("human", <<"x">>), TripleItem("ai", <<"x">>)>>),
     TupleInput(<<StrItem(<<"x">>)>>)}

HashSeeds == {0, 1}

(***************************************************************************)
(* The chat adapter's calls.                                               *)
(***************************************************************************)
NoGen == GenDone(FALSE, "", NoResult, <<>>, <<>>, <<>>, {})

CIdle ==
    [op |-> "none", input |-> StrInput(<<>>), messages |-> <<>>, stop |-> NoneVal,
     kwargs |-> NoKwargs, resp |-> Returned(NoResult), gen |-> NoGen,
     reply |-> NoReply]

CDone(op, input, messages, stop, kwargs, resp, gen, reply) ==
    [op |-> op, input |-> input, messages |-> messages, stop |-> stop,
     kwargs |-> kwargs, resp |-> resp, gen |-> gen, reply |-> reply]

Generate ==
    /\ ccall.op = "none"
    /\ \E messages \in MessageLists, stop \in StopArgs, kw \in KwargsSets,
          resp \in Responses, t \in TrackOuts, l \in LogOuts :
          ccall' = CDone("_generate", StrInput(<<>>), messages, stop, kw, resp,
                         generate(tracking, hashseed, messages, stop, kw, resp, t, l),
                         NoReply)
    /\ UNCHANGED <<provider, pcall, cachevars, tracking, hashseed, normvars, globvars, llmvars>>

Invoke ==
    /\ ccall.op = "none"
    /\ \E input \in Inputs, kw \in InvokeKwargs, resp \in Responses, t \in TrackOuts,
          l \in LogOuts :
          LET r == invoke(tracking, hashseed, input, kw, resp, t, l)
          IN  ccall' = CDone("invoke", input, r.messages, PopValue(kw, "stop"), kw,
                             resp, r.gen, r.reply)
    /\ UNCHANGED <<provider, pcall, cachevars, tracking, hashseed, normvars, globvars, llmvars>>

(* The caller takes the result (or the exception); the call's state is gone. *)
CReturn ==
    /\ ccall.op # "none"
    /\ ccall' = CIdle
    /\ UNCHANGED <<provider, pcall, cachevars, tracking, hashseed, normvars, globvars, llmvars>>

(***************************************************************************)
(* _normalize_symbol on its own: the symbol is drawn at the start, the     *)
(* function is applied to it and then to its own result.                   *)
(***************************************************************************)
Tokens ==
    {<<"6">>, <<"0">>, <<"3">>, <<"8">>, <<"9">>, <<"A">>, <<"s">>, <<"h">>, <<"z">>,
     <<".">>, <<"s", "h", ".">>, <<"s", "z", ".">>, <<".", "S", "H">>,
     <<".", "S", "Z">>, <<".", "B", "J">>, <<".", "s", "h">>}

RECURSIVE Concat(_)
Concat(parts) == IF parts = <<>> THEN <<>> ELSE Head(parts) \o Concat(Tail(parts))

(* The non-empty strings made of at most MaxParts tokens. *)
Symbols == {Concat(parts) : parts \in UNION {[1..k -> Tokens] : k \in 1..MaxParts}}

NIdle == [step |-> 0, symbol |-> <<"0">>, once |-> <<>>, twice |-> <<>>]

Normalize ==
    /\ ncall.step = 0
    /\ ncall' = [ncall EXCEPT !.step = 1, !.once = normalize_symbol(ncall.symbol)]
    /\ UNCHANGED <<provider, pcall, cachevars, chatvars, globvars, llmvars>>

NormalizeAgain ==
    /\ ncall.step = 1
    /\ ncall' = [ncall EXCEPT !.step = 2, !.twice = normalize_symbol(ncall.once)]
    /\ UNCHANGED <<provider, pcall, cachevars, chatvars, globvars, llmvars>>

(***************************************************************************)
(* get_tushare_provider, called from several threads.  The function reads  *)
(* the module-level handle, constructs a provider if it read None, stores  *)
(* it, and returns what the handle holds then; a thread switch can occur   *)
(* between any two of these steps.  An instance is its number (0: None).   *)
(***************************************************************************)
Threads == 1..MaxThreads

TIdle == [pc |-> "idle", inst |-> 0, got |-> 0, calls |-> 0]

(* A thread enters the function. *)
Call(t) ==
    /\ threads[t].pc \in {"idle", "done"}
    /\ threads[t].calls < MaxCalls
    /\ threads' = [threads EXCEPT ![t].pc = "test", ![t].inst = 0, ![t].got = 0,
                                  ![t].calls = @ + 1]
    /\ UNCHANGED <<tushare_provider, constructed>>

(* if _tushare_provider is None: *)
TestHandle(t) ==
    /\ threads[t].pc = "test"
    /\ threads' = [threads EXCEPT
                      ![t].pc = IF tushare_provider = 0 THEN "construct" ELSE "return"]
    /\ UNCHANGED <<tushare_provider, constructed>>

(* TushareProvider() *)
Construct(t) ==
    /\ threads[t].pc = "construct"
    /\ constructed' = constructed + 1
    /\ threads' = [threads EXCEPT ![t].pc = "store", ![t].inst = constructed + 1]
    /\ UNCHANGED tushare_provider

(* _tushare_provider = <the new instance> *)
StoreHandle(t) ==
    /\ threads[t].pc = "store"
    /\ tushare_provider' = threads[t].inst
    /\ threads' = [threads EXCEPT ![t].pc = "return"]
    /\ UNCHANGED constructed

(* return _tushare_provider *)
ReturnHandle(t) ==
    /\ threads[t].pc = "return"
    /\ threads' = [threads EXCEPT ![t].pc = "done", ![t].got = tushare_provider]
    /\ UNCHANGED <<tushare_provider, constructed>>

get_tushare_provider(t) ==
    \/ Call(t)
    \/ TestHandle(t)
    \/ Construct(t)
    \/ StoreHandle(t)
    \/ ReturnHandle(t)

GetTushareProvider ==
    /\ \E t \in Threads : get_tushare_provider(t)
    /\ UNCHANGED <<provider, pcall, cachevars, chatvars, normvars, llmvars>>

NoGlobal ==
    /\ tushare_provider = 0
    /\ constructed = 0
    /\ threads = [t \in Threads |-> TIdle]

(***************************************************************************)
(* DeepSeekAdapter (llm/deepseek_adapter.py).  An instance is its default  *)
(* max_tokens (an int or None); the content of a response is a str, a      *)
(* list of parts (strs and other objects) or another object (None).        *)
(***************************************************************************)
DeepSeekAdapter(max_tokens) == [max_tokens |-> max_tokens]

StrContent(text) == [shape |-> "str", text |-> text, parts |-> <<>>]
ListContent(parts) == [shape |-> "list", text |-> <<>>, parts |-> parts]
NoneContent == [shape |-> "none", text |-> <<>>, parts |-> <<>>]

LlmRaised(exc) == [kind |-> "raise", exc |-> exc, content |-> NoneContent]
LlmReturned(content) == [kind |-> "return", exc |-> "", content |-> content]

(* ''.join(str(item) for item in content) *)
RECURSIVE JoinStr(_)
JoinStr(parts) == IF parts = <<>> THEN <<>> ELSE StrOf(Head(parts)) \o JoinStr(Tail(parts))

content_text_first_item(content) ==
    IF content.shape = "str" THEN content.text
    ELSE IF content.shape = "list"
         THEN (IF content.parts = <<>> THEN <<>> ELSE StrOf(Head(content.parts)))
    ELSE <<"N", "o", "n", "e">>

(* Lines 161-168: the reply as a str. *)
content_text(content) ==
    IF content.shape = "str" THEN content.text
    ELSE IF content.shape = "list" THEN JoinStr(content.parts)
    ELSE <<"N", "o", "n", "e">>

chat_kwargs_overrides(self, kwargs) ==
    IF ~self.max_tokens.none
    THEN [k \in DOMAIN kwargs \cup {"max_tokens"} |->
             IF k = "max_tokens" THEN self.max_tokens ELSE kwargs[k]]
    ELSE kwargs

(* Lines 156-157: the instance's max_tokens is added when the caller gave *)
(* none and the instance has one.                                         *)
chat_kwargs(self, kwargs) ==
    IF "max_tokens" \notin DOMAIN kwargs /\ ~self.max_tokens.none
    THEN [k \in DOMAIN kwargs \cup {"max_tokens"} |->
             IF k = "max_tokens" THEN self.max_tokens ELSE kwargs[k]]
    ELSE kwargs

(* The outcome of a call on the adapter. *)
ADone(op, messages, kwargs, resp, raised, exc, sent, reply, ok) ==
    [op |-> op, messages |-> messages, kwargs |-> kwargs, resp |-> resp,
     raised |-> raised, exc |-> exc, sent |-> sent, reply |-> reply, ok |-> ok]

AIdle ==
    ADone("none", <<>>, NoKwargs, LlmReturned(NoneContent), FALSE, "", <<>>, <<>>, FALSE)

(* DeepSeekAdapter.chat: one self.llm.invoke; the except logs and re-raises. *)
chat(self, messages, kwargs, resp) ==
    LET sent == <<[messages |-> messages, kwargs |-> chat_kwargs(self, kwargs)]>>
    IN  IF resp.kind = "raise"
        THEN ADone("chat", messages, kwargs, resp, TRUE, resp.exc, sent, <<>>, FALSE)
        ELSE ADone("chat", messages, kwargs, resp, FALSE, "", sent,
                   content_text(resp.content), FALSE)

(* The message "Hello, this is a test." *)
TestMessage == <<HumanMessage(<<"H", "e", "l", "l", "o">>)>>

(* DeepSeekAdapter.test_connection: bool(self.chat(...)), False on any exception. *)
test_connection(self, resp) ==
    LET c == chat(self, TestMessage, NoKwargs, resp)
    IN  [c EXCEPT !.op = "test_connection", !.raised = FALSE, !.exc = "",
                  !.ok = (~c.raised /\ c.reply # <<>>)]

Adapters == {DeepSeekAdapter(NoneVal), DeepSeekAdapter(Val("2000"))}

ChatKwargs ==
    {NoKwargs,
     [k \in {"max_tokens"} |-> Val("100")],
     [k \in {"max_tokens"} |-> NoneVal],
     [k \in {"temperature"} |-> Val("0.5")],
     [k \in {"max_tokens", "temperature"} |->
         IF k = "max_tokens" THEN Val("100") ELSE Val("0.5")]}

Contents ==
    {StrContent(<<>>), StrContent(<<"o", "k">>), NoneContent, ListContent(<<>>),
     ListContent(<<StrItem(<<>>)>>),
     ListContent(<<StrItem(<<"a">>), IntItem(7)>>),
     ListContent(<<IntItem(7), StrItem(<<"a">>)>>)}

LlmResponses ==
    {LlmRaised("APIError"), LlmRaised("Timeout")} \cup {LlmReturned(c) : c \in Contents}

ChatMessages == {<<>>, <<HumanMessage(<<"x">>)>>, TestMessage}

Chat ==
    /\ acall.op = "none"
    /\ \E messages \in ChatMessages, kw \in ChatKwargs, resp \in LlmResponses :
          acall' = chat(adapter, messages, kw, resp)
    /\ UNCHANGED <<adapter, provider, pcall, cachevars, chatvars, normvars, globvars>>

TestConnection ==
    /\ acall.op = "none"
    /\ \E resp \in LlmResponses : acall' = test_connection(adapter, resp)
    /\ UNCHANGED <<adapter, provider, pcall, cachevars, chatvars, normvars, globvars>>

(* The caller takes the reply (or the exception). *)
AReturn ==
    /\ acall.op # "none"
    /\ acall' = AIdle
    /\ UNCHANGED <<adapter, provider, pcall, cachevars, chatvars, normvars, globvars>>

NoAdapter ==
    /\ adapter = DeepSeekAdapter(NoneVal)
    /\ acall = AIdle

Init ==
    /\ provider \in Providers
    /\ pcall = PIdle
    /\ cache \in Caches
    /\ listed = FALSE
    /\ tracking \in BOOLEAN
    /\ hashseed \in HashSeeds
    /\ ccall = CIdle
    /\ ncall \in {[NIdle EXCEPT !.symbol = s] : s \in Symbols}
    /\ NoGlobal
    /\ adapter \in Adapters
    /\ acall = AIdle

(* The provider alone: the chat adapter's module state does not matter. *)
InitProvider ==
    /\ provider \in Providers
    /\ pcall = PIdle
    /\ cache \in Caches
    /\ provider.enable_cache \/ cache = NoCache
    /\ listed = FALSE
    /\ tracking = FALSE
    /\ hashseed = 0
    /\ ccall = CIdle
    /\ ncall = NIdle
    /\ NoGlobal
    /\ NoAdapter

(* The chat adapter alone: no provider has been connected. *)
InitChat ==
    /\ provider = TushareProvider(FALSE, FALSE, FALSE, FALSE, FALSE, FALSE, FALSE)
    /\ pcall = PIdle
    /\ cache = NoCache
    /\ listed = FALSE
    /\ tracking \in BOOLEAN
    /\ hashseed \in HashSeeds
    /\ ccall = CIdle
    /\ ncall = NIdle
    /\ NoGlobal
    /\ NoAdapter

(* Symbol normalization alone, for every symbol of Symbols. *)
InitNormalize ==
    /\ provider = TushareProvider(FALSE, FALSE, FALSE, FALSE, FALSE, FALSE, FALSE)
    /\ pcall = PIdle
    /\ cache = NoCache
    /\ listed = FALSE
    /\ tracking = FALSE
    /\ hashseed = 0
    /\ ccall = CIdle
    /\ ncall \in {[NIdle EXCEPT !.symbol = s] : s \in Symbols}
    /\ NoGlobal
    /\ NoAdapter

NextProvider ==
    \/ GetStockList
    \/ GetStockDaily
    \/ GetStockInfo
    \/ GetFinancialData
    \/ SearchStocks
    \/ PReturn
    \/ Expire
    \/ DayPasses

SpecProvider == InitProvider /\ [][NextProvider]_vars

NextChat ==
    \/ Generate
    \/ Invoke
    \/ CReturn

SpecChat == InitChat /\ [][NextChat]_vars

(* The process-wide handle alone, from the freshly imported module. *)
InitGlobal ==
    /\ provider = TushareProvider(FALSE, FALSE, FALSE, FALSE, FALSE, FALSE, FALSE)
    /\ pcall = PIdle
    /\ cache = NoCache
    /\ listed = FALSE
    /\ tracking = FALSE
    /\ hashseed = 0
    /\ ccall = CIdle
    /\ ncall = NIdle
    /\ NoGlobal
    /\ NoAdapter

NextGlobal == GetTushareProvider

SpecGlobal == InitGlobal /\ [][NextGlobal]_vars

NextNormalize ==
    \/ Normalize
    \/ NormalizeAgain

SpecNormalize == InitNormalize /\ [][NextNormalize]_vars

(* The DeepSeekAdapter alone. *)
InitAdapter ==
    /\ provider = TushareProvider(FALSE, FALSE, FALSE, FALSE, FALSE, FALSE, FALSE)
    /\ pcall = PIdle
    /\ cache = NoCache
    /\ listed = FALSE
    /\ tracking = FALSE
    /\ hashseed = 0
    /\ ccall = CIdle
    /\ ncall = NIdle
    /\ NoGlobal
    /\ adapter \in Adapters
    /\ acall = AIdle

NextAdapter ==
    \/ Chat
    \/ TestConnection
    \/ AReturn

SpecAdapter == InitAdapter /\ [][NextAdapter]_vars

(***************************************************************************)
(* The provider and the chat adapter in one process.  They share no state  *)
(* and every operation is synchronous, so the two are explored one at a    *)
(* time: the chat adapter is called in a process whose provider was built  *)
(* without token and cache and has no call in flight.                      *)
(***************************************************************************)
InitCalls == InitProvider \/ InitChat

ChatAlone ==
    /\ provider = TushareProvider(FALSE, FALSE, FALSE, FALSE, FALSE, FALSE, FALSE)
    /\ cache = NoCache
    /\ pcall = PIdle

NextCalls ==
    \/ ccall = CIdle /\ NextProvider
    \/ ChatAlone /\ NextChat

SpecCalls == InitCalls /\ [][NextCalls]_vars

Next == NextProvider \/ NextChat \/ NextNormalize \/ NextGlobal \/ NextAdapter

Spec == Init /\ [][Next]_vars

(***************************************************************************)
(* Claims about the provider, checked under SpecProvider.                  *)
(***************************************************************************)
Fallback(call) ==
    IF call.op = "get_stock_info" THEN InfoDict(Placeholder(call.symbol))
    ELSE IF call.op = "get_financial_data" THEN FinDict(NoFin)
    ELSE EmptyFrame

Connected == provider.connected /\ provider.api

StatementOf(out) == IF out.kind = "frame" THEN out.rows ELSE <<>>

(* C2: on a connected provider (given a string symbol) the balance-sheet, *)
(* income and cash-flow endpoints are each called exactly once, in that   *)
(* order, whatever the others answer, and each statement of the result is *)
(* the fetched records, or the empty list exactly when its own call       *)
(* raised or returned nothing.                                            *)
C2_StatementsIndependent ==
    (pcall.op = "get_financial_data" /\ Connected /\ pcall.symbol.isStr) =>
        /\ Len(pcall.ext) = 3
        /\ pcall.ext[1].fn = "balancesheet"
        /\ pcall.ext[2].fn = "income"
        /\ pcall.ext[3].fn = "cashflow"
        /\ pcall.result.fin.keys = {"balance_sheet", "income_statement", "cash_flow"}
        /\ pcall.result.fin.balance_sheet = StatementOf(pcall.ext[1].out)
        /\ pcall.result.fin.income_statement = StatementOf(pcall.ext[2].out)
        /\ pcall.result.fin.cash_flow = StatementOf(pcall.ext[3].out)

(* C2 witness: the balance-sheet call raised and the two later statements *)
(* were still fetched and returned.                                       *)
C2_Witness ==
    /\ pcall.op = "get_financial_data"
    /\ Len(pcall.ext) = 3
    /\ pcall.ext[1].out.kind = "raise"
    /\ pcall.result.fin.balance_sheet = <<>>
    /\ pcall.result.fin.income_statement # <<>>
    /\ pcall.result.fin.cash_flow # <<>>

(***************************************************************************)
(* Claims about the chat adapter, checked under SpecChat.                  *)
(***************************************************************************)
Dispatched == ccall.op # "none" /\ ccall.resp.kind = "return"

(* C3: an exception raised by the remote dispatch reaches the caller      *)
(* unchanged and the usage tracker is not invoked then; in every call     *)
(* track_usage is invoked at most once and only after the single          *)
(* dispatch has returned, and a call that fails has recorded nothing.     *)
C3_DispatchErrorPropagates ==
    ccall.op # "none" =>
        /\ (ccall.resp.kind = "raise" =>
               /\ ccall.gen.raised
               /\ ccall.gen.exc = ccall.resp.exc
               /\ ccall.gen.tracked = <<>>)
        /\ Len(ccall.gen.tracked) <= 1
        /\ (ccall.gen.tracked # <<>> =>
               ccall.resp.kind = "return" /\ Len(ccall.gen.sent) = 1)
        /\ (ccall.gen.raised => ccall.gen.tracked = <<>> /\ ccall.gen.logged = <<>>)

(* C3 witness: with a tracker configured, a call whose dispatch raised    *)
(* has ended with that exception.                                         *)
C3_Witness ==
    /\ ccall.op = "_generate"
    /\ tracking
    /\ ccall.resp.kind = "raise"
    /\ ccall.gen.raised
    /\ ccall.gen.exc = "Timeout"

(* C4: once the dispatch has returned a result, nothing in the            *)
(* usage-accounting path (extraction, estimation, track_usage, the        *)
(* token-usage logger) changes what the caller gets: the same ChatResult  *)
(* is returned and no exception reaches the caller.                       *)
C4_AccountingNeverMasksResult ==
    Dispatched => ~ccall.gen.raised /\ ccall.gen.result = ccall.resp.result

IntCounts(usage) == usage.prompt_tokens # NoneTok /\ usage.completion_tokens # NoneTok

(* C5: when the response carries a usage block (with integer counts,      *)
(* zero included) the estimation fallback is not triggered and the counts *)
(* passed to the tracker are the block's prompt_tokens and                *)
(* completion_tokens.                                                     *)
C5_UsageBlockUsedAsReported ==
    (Dispatched /\ ccall.resp.result.usage.present
        /\ IntCounts(ccall.resp.result.usage)) =>
        /\ "estimated" \notin ccall.gen.logs
        /\ (ccall.gen.tracked # <<>> =>
               /\ ccall.gen.tracked[1].input_tokens
                      = ccall.resp.result.usage.prompt_tokens
               /\ ccall.gen.tracked[1].output_tokens
                      = ccall.resp.result.usage.completion_tokens)

(* The total length of the contents, counted from the last message. *)
RECURSIVE CharCount(_)
CharCount(msgs) ==
    IF msgs = <<>> THEN 0
    ELSE CharCount(SubSeq(msgs, 1, Len(msgs) - 1)) + Len(msgs[Len(msgs)].content)

NoBlockTracked ==
    /\ Dispatched
    /\ ~ccall.resp.result.usage.present
    /\ ccall.gen.tracked # <<>>

C7_CustomKeywordsNotForwarded ==
    ccall.op # "none" =>
        LET custom == {"session_id", "analysis_type"}
            others == DOMAIN ccall.kwargs \ (custom \cup {"stop"})
            stop == IF ccall.op = "invoke"
                    THEN (IF "stop" \in DOMAIN ccall.kwargs THEN ccall.kwargs["stop"]
                          ELSE NoneVal)
                    ELSE ccall.stop
        IN  /\ Len(ccall.gen.sent) = 1
            /\ DOMAIN ccall.gen.sent[1].kwargs = others
            /\ \A k \in others : ccall.gen.sent[1].kwargs[k] = ccall.kwargs[k]
            /\ ccall.gen.sent[1].messages = ccall.messages
            /\ ccall.gen.sent[1].stop = stop

(* C7 witness: an invoke with stop and session_id keywords has dispatched. *)
C7_Witness ==
    /\ ccall.op = "invoke"
    /\ DOMAIN ccall.kwargs = {"stop", "analysis_type", "temperature"}
    /\ Len(ccall.gen.sent) = 1
    /\ DOMAIN ccall.gen.sent[1].kwargs = {"temperature"}
    /\ ccall.gen.sent[1].stop = Val("END")

Positive(t) == t # NoneTok /\ t[1] > 0

(* C8: after every successful dispatch track_usage is called exactly once *)
(* if a tracker is configured and one of the two token counts is          *)
(* positive, and not at all otherwise; the call carries provider          *)
(* "deepseek", the model name, the two counts, the caller's session_id or *)
(* else "deepseek_<n>" with 0 <= n < 10000, and the caller's              *)
(* analysis_type or else "stock_analysis".                                *)
C8_TrackedOncePerSuccess ==
    Dispatched =>
        LET u == usage_tokens(ccall.messages, ccall.resp.result)
            due == tracking /\ (Positive(u.input_tokens) \/ Positive(u.output_tokens))
            t == ccall.gen.tracked[1]
            sid == IF "session_id" \in DOMAIN ccall.kwargs
                   THEN ccall.kwargs["session_id"] ELSE NoneVal
            aty == IF "analysis_type" \in DOMAIN ccall.kwargs
                   THEN ccall.kwargs["analysis_type"] ELSE NoneVal
        IN  /\ Len(ccall.gen.tracked) = (IF due THEN 1 ELSE 0)
            /\ due =>
                  /\ t.provider = "deepseek"
                  /\ t.model_name = ModelName
                  /\ t.input_tokens = u.input_tokens
                  /\ t.output_tokens = u.output_tokens
                  /\ (~sid.none => t.session_id = SessionGiven(sid))
                  /\ (sid.none =>
                         /\ t.session_id.default
                         /\ t.session_id.v = "deepseek_"
                         /\ t.session_id.n \in 0..9999)
                  /\ t.analysis_type = (IF aty.none THEN "stock_analysis" ELSE aty.v)

(* The message an input item stands for; an unparseable item (a pair with *)
(* an unknown role, a tuple of another length, another object) is a human *)
(* message holding the item's string form.                                *)
ExpectedOfItem(item) ==
    IF item.kind = "msg" THEN Msg(item.role, item.content)
    ELSE IF item.kind = "str" THEN HumanMessage(item.content)
    ELSE IF item.kind = "pair" /\ item.role \in {"human", "ai", "system"}
         THEN Msg(item.role, item.content)
    ELSE HumanMessage(StrOf(item))

(* The same, but a pair with an unknown role is a human message holding   *)
(* the pair's content.                                                    *)
AmendedOfItem(item) ==
    IF item.kind = "pair" /\ item.role \notin {"human", "ai", "system"}
    THEN HumanMessage(item.content)
    ELSE ExpectedOfItem(item)

Scalar(input) == input.shape \in {"str", "int"}

(* C9, as stated: invoke's message list has one message per input item,   *)
(* in order, each item mapped as ExpectedOfItem says; a bare string is a  *)
(* single human message and a non-iterable input a single human message   *)
(* holding its string form.                                               *)
C9_UnparseableWrappedAsString ==
    ccall.op = "invoke" =>
        IF Scalar(ccall.input)
        THEN ccall.messages
                 = <<HumanMessage(IF ccall.input.shape = "str" THEN ccall.input.text
                                  ELSE <<Digits[ccall.input.n + 1]>>)>>
        ELSE /\ Len(ccall.messages) = Len(ccall.input.items)
             /\ \A i \in 1..Len(ccall.input.items) :
                   ccall.messages[i] = ExpectedOfItem(ccall.input.items[i])

(* C9, amended: as stated, except that a (role, content) pair with an     *)
(* unknown role becomes a human message holding the pair's content, not   *)
(* the string form of the pair.                                           *)
C9_ItemsMappedInOrder ==
    ccall.op = "invoke" =>
        IF Scalar(ccall.input)
        THEN ccall.messages
                 = <<HumanMessage(IF ccall.input.shape = "str" THEN ccall.input.text
                                  ELSE <<Digits[ccall.input.n + 1]>>)>>
        ELSE /\ Len(ccall.messages) = Len(ccall.input.items)
             /\ \A i \in 1..Len(ccall.input.items) :
                   ccall.messages[i] = AmendedOfItem(ccall.input.items[i])

(* C9 witness: a list holding a message and a pair with an unknown role   *)
(* was converted to that message and a human message with the content.    *)
C9_Witness ==
    /\ ccall.op = "invoke"
    /\ ccall.input.shape = "list"
    /\ Len(ccall.input.items) = 2
    /\ ccall.input.items[2].kind = "pair"
    /\ ccall.input.items[2].role = "tool"
    /\ ccall.messages = <<AIMessage(<<"x">>), HumanMessage(<<"x">>)>>

(* C10: whenever the dispatch succeeds, invoke returns one assistant      *)
(* message: the first generation's message (as an assistant message with  *)
(* the same content if it is of another type), or an empty assistant      *)
(* message when there is no generation; it does not raise.                *)
C10_InvokeReturnsAssistantMessage ==
    (ccall.op = "invoke" /\ ccall.resp.kind = "return") =>
        LET gens == ccall.resp.result.generations
        IN  /\ ~ccall.gen.raised
            /\ ccall.reply.type = "ai"
            /\ ccall.reply.content = (IF gens = <<>> THEN <<>> ELSE gens[1].content)

(***************************************************************************)
(* Claims about _normalize_symbol, checked under SpecNormalize.            *)
(***************************************************************************)
ShDot == <<"s", "h", ".">>
SzDot == <<"s", "z", ".">>

(* The text 'sh.' or 'sz.' occurs somewhere in s. *)
HasPrefixText(s) ==
    \E i \in 1..Len(s) : i + 2 <= Len(s) /\ SubSeq(s, i, i + 2) \in {ShDot, SzDot}

EndsWith(s, suffix) ==
    Len(s) >= Len(suffix) /\ SubSeq(s, Len(s) - Len(suffix) + 1, Len(s)) = suffix

Exchanges == {<<".", "S", "H">>, <<".", "S", "Z">>, <<".", "B", "J">>}

EndsInExchange(s) == \E e \in Exchanges : EndsWith(s, e)

IsDigits(s) == s # <<>> /\ \A i \in 1..Len(s) : s[i] \in {"6", "0", "3", "8", "9"}

(* C11, as stated: for every non-empty string, normalizing the normalized *)
(* symbol returns it unchanged.                                           *)
C11_Idempotent == ncall.step = 2 => ncall.twice = ncall.once

(* C11, amended: normalizing a normalized symbol returns it unchanged     *)
(* whenever the normalized symbol contains neither 'sh.' nor 'sz.'.       *)
C11_IdempotentWithoutPrefixText ==
    (ncall.step = 2 /\ ~HasPrefixText(ncall.once)) => ncall.twice = ncall.once

(* C11 witness: 'sh.60' was normalized to '60.SH' and then again, with    *)
(* the same result.                                                       *)
C11_Witness ==
    /\ ncall.step = 2
    /\ ncall.symbol = <<"s", "h", ".", "6", "0">>
    /\ ncall.once = <<"6", "0", ".", "S", "H">>
    /\ ncall.twice = ncall.once

(* C12: a digit string d, bare or written with one leading 'sh.' or 'sz.', *)
(* is normalized to d followed by the suffix of d's first digit: 6 gives  *)
(* .SH, 0 or 3 .SZ, 8 .BJ, any other digit .SZ; the prefix has no         *)
(* influence and nothing else is removed.                                 *)
C12_SuffixByFirstDigit ==
    ncall.step >= 1 =>
        LET s == ncall.symbol
            d == IF Len(s) > 3 /\ SubSeq(s, 1, 3) \in {ShDot, SzDot}
                 THEN SubSeq(s, 4, Len(s)) ELSE s
            suffix == IF d[1] = "6" THEN <<".", "S", "H">>
                      ELSE IF d[1] \in {"0", "3"} THEN <<".", "S", "Z">>
                      ELSE IF d[1] = "8" THEN <<".", "B", "J">>
                      ELSE <<".", "S", "Z">>
        IN  IsDigits(d) => ncall.once = d \o suffix

(* C12 witness: 'sz.68' was normalized to '68.SH'. *)
C12_Witness ==
    /\ ncall.step >= 1
    /\ ncall.symbol = <<"s", "z", ".", "6", "8">>
    /\ ncall.once = <<"6", "8", ".", "S", "H">>

(* C13, as stated: a symbol that ends in an exchange suffix is returned   *)
(* unchanged.                                                             *)
C13_IdentityOnSuffixed ==
    (ncall.step >= 1 /\ EndsInExchange(ncall.symbol)) => ncall.once = ncall.symbol

(* C13, amended: a symbol that contains the separator '.' and neither     *)
(* 'sh.' nor 'sz.' is returned unchanged.                                 *)
C13_IdentityOnSuffixedWithoutPrefix ==
    (ncall.step >= 1 /\ Contains(ncall.symbol, ".") /\ ~HasPrefixText(ncall.symbol))
        => ncall.once = ncall.symbol

(* C13 witness: '60.SH' was returned unchanged. *)
C13_Witness ==
    /\ ncall.step >= 1
    /\ ncall.symbol = <<"6", "0", ".", "S", "H">>
    /\ ncall.once = ncall.symbol

C15_OneProviderPerProcess ==
    /\ constructed <= 1
    /\ \A t \in Threads, u \in Threads :
          (threads[t].pc = "done" /\ threads[u].pc = "done")
              => threads[t].got = threads[u].got
    /\ \A t \in Threads : threads[t].pc = "done" => threads[t].got = tushare_provider

(***************************************************************************)
(* Claims about the provider and the cache, checked under SpecProvider.    *)
(***************************************************************************)
ListCall == pcall.op = "get_stock_list" /\ Connected /\ provider.enable_cache

Calls(fn) == {i \in 1..Len(pcall.ext) : pcall.ext[i].fn = fn}

(* A payload the listing can be read from. *)
Readable(payload) == payload.kind \in {"frame", "json"} /\ payload.rows # <<>>

(* The facade found the entry and loaded a readable payload. *)
CacheHit ==
    /\ Len(pcall.ext) >= 2
    /\ pcall.ext[1].fn = "find"
    /\ pcall.ext[1].out.kind = "hit"
    /\ pcall.ext[2].fn = "load"
    /\ Readable(pcall.ext[2].out)

HitServed ==
    CacheHit =>
        /\ pcall.ext[1].sym = ListKey
        /\ pcall.ext[1].max_age_hours = 24
        /\ pcall.result = Frame(pcall.ext[2].out.rows)
        /\ Len(pcall.ext) = 2

(* C16, as stated: with the cache enabled, when the facade finds an entry *)
(* for "tushare_stock_list" not older than 24 hours, holding a non-empty  *)
(* table (or JSON text of one), that table is returned without a remote   *)
(* call or a save; and a get_stock_list within 24 hours of one that       *)
(* returned a listing makes no remote call.                               *)
C16_NoRemoteWithinADay ==
    ListCall =>
        /\ HitServed
        /\ (pcall.was_listed => Calls("stock_basic") = {})

(* C16, amended: the first part as stated; and a get_stock_list makes no  *)
(* remote call and no save whenever the cache holds an entry not older    *)
(* than 24 hours with a readable payload, which is the case after a       *)
(* get_stock_list whose save succeeded, until that entry is 24 hours old. *)
C16_ReadThroughWhileFresh ==
    ListCall =>
        /\ HitServed
        /\ (pcall.before.list.age = "fresh" /\ Readable(pcall.before.list.payload))
               => (Calls("stock_basic") = {} /\ Calls("save") = {})
        /\ Saved(pcall.ext)
               => cache.list = Entry("fresh", Out("frame", pcall.result.rows), "with")

(* C16 witness: the cache held a fresh entry whose payload was JSON text  *)
(* of a two-row table; the table was returned after find and load only.   *)
C16_Witness ==
    /\ ListCall
    /\ pcall.was_listed
    /\ pcall.before.list.age = "fresh"
    /\ pcall.before.list.payload = Out("json", <<RowB, RowA>>)
    /\ Len(pcall.ext) = 2
    /\ pcall.result = Frame(<<RowB, RowA>>)

(* The cache gave no listing: no entry was found, or the payload loaded   *)
(* was missing, empty, unparsable or of an unsupported form.              *)
CacheMiss ==
    /\ pcall.ext # <<>>
    /\ pcall.ext[1].fn = "find"
    /\ \/ pcall.ext[1].out.kind = "miss"
       \/ /\ pcall.ext[1].out.kind = "hit"
          /\ Len(pcall.ext) >= 2
          /\ pcall.ext[2].out.kind # "raise"
          /\ ~Readable(pcall.ext[2].out)

(* C17: on a cache miss or an unreadable payload the listing is fetched   *)
(* remotely exactly once; a non-empty remote table is passed to one save  *)
(* under symbol "tushare_stock_list" and source "tushare" and returned;   *)
(* when the remote call fails or returns nothing or an empty table, the   *)
(* empty table is returned and save is not called.                        *)
C17_MissFetchesOnceAndSaves ==
    (ListCall /\ CacheMiss) =>
        /\ Cardinality(Calls("stock_basic")) = 1
        /\ LET remote == pcall.ext[CHOOSE i \in Calls("stock_basic") : TRUE].out
           IN  IF remote.kind = "frame" /\ remote.rows # <<>>
               THEN /\ Cardinality(Calls("save")) = 1
                    /\ \A i \in Calls("save") :
                          /\ i = Len(pcall.ext)
                          /\ pcall.ext[i].sym = ListKey
                          /\ pcall.ext[i].src = "tushare"
                          /\ pcall.ext[i].data = remote.rows
                    /\ pcall.result = Frame(remote.rows)
               ELSE /\ Calls("save") = {}
                    /\ pcall.result = EmptyFrame
                    /\ cache = pcall.before

(* C17 witness: the payload found was unparsable JSON text, the listing   *)
(* was fetched, saved and returned.                                       *)
C17_Witness ==
    /\ ListCall
    /\ Len(pcall.ext) = 4
    /\ pcall.ext[2].out.kind = "badjson"
    /\ pcall.ext[3].fn = "stock_basic"
    /\ pcall.ext[4].fn = "save"
    /\ pcall.ext[4].out.kind = "ok"
    /\ pcall.result = Frame(<<RowA, RowB>>)
    /\ cache.list.payload = Out("frame", <<RowA, RowB>>)

(* C18, as stated: called without dates, get_stock_daily asks the remote  *)
(* API for a window in compact format that ends on the current date and   *)
(* starts exactly 365 days before its end, whenever the call runs; dates  *)
(* given as YYYY-MM-DD are forwarded with the separators removed.         *)
C18_DefaultWindowIs365Days ==
    (pcall.op = "get_stock_daily" /\ Calls("daily") # {}) =>
        LET call == pcall.ext[1]
        IN  /\ (pcall.start_date = NoDate /\ pcall.end_date = NoDate) =>
                  /\ call.d2 = Compact(pcall.now[1])
                  /\ call.d1 = Compact(call.d2.day - 365)
            /\ pcall.start_date.fmt = "dash" => call.d1 = Compact(pcall.start_date.day)
            /\ pcall.end_date.fmt = "dash" => call.d2 = Compact(pcall.end_date.day)

NoRow ==
    \/ ~Connected
    \/ pcall.ext = <<>>
    \/ pcall.ext[1].out.kind # "frame"
    \/ pcall.ext[1].out.rows = <<>>

InfoAsClaimed(prefix) ==
    pcall.op = "get_stock_info" =>
        /\ ~pcall.raised
        /\ pcall.result.kind = "dict"
        /\ pcall.result.info.symbol = pcall.symbol
        /\ IF NoRow
           THEN /\ pcall.result.info.keys = {"symbol", "name", "source"}
                /\ pcall.result.info.name = [prefix |-> prefix, text |-> pcall.symbol]
                /\ pcall.result.info.source = "unknown"
           ELSE /\ pcall.result.info.source = "tushare"
                /\ pcall.result.info.ts_code = pcall.ext[1].out.rows[1].ts_code

(* C19, as stated: when the provider is disconnected, the lookup returns  *)
(* no row or a step raises, get_stock_info returns a record with exactly  *)
(* the fields symbol (the caller's symbol), name ("Unknown" followed by   *)
(* the symbol) and source "unknown"; after a successful lookup the symbol *)
(* field is the caller's symbol and the source is "tushare".              *)
C19_PlaceholderNamedUnknown == InfoAsClaimed("Unknown")

(* C19, amended: as stated, except that the placeholder's name is the two *)
(* characters U+80A1 U+7968 followed by the symbol.                       *)
C19_PlaceholderNamedStock == InfoAsClaimed(StockPrefix)

(* C19 witness: the lookup for 'sh.60' raised and the placeholder for     *)
(* 'sh.60' was returned.                                                  *)
C19_Witness ==
    /\ pcall.op = "get_stock_info"
    /\ pcall.symbol = StrArg(<<"s", "h", ".", "6", "0">>)
    /\ "remote" \in pcall.caught
    /\ pcall.result = InfoDict(Placeholder(pcall.symbol))

RemoteCalls ==
    {i \in 1..Len(pcall.ext) :
        pcall.ext[i].fn \in {"stock_basic", "daily", "balancesheet", "income", "cashflow"}}

(* The cache held, when the call began, what a previous call of the same  *)
(* kind and symbol had saved.                                             *)
AlreadyCached ==
    \/ /\ pcall.op = "get_stock_list"
       /\ pcall.before.list.age = "fresh"
       /\ Readable(pcall.before.list.payload)
    \/ /\ pcall.op = "get_stock_daily"
       /\ pcall.symbol \in pcall.before.saved

(* C20: with the cache enabled, each of get_stock_list, get_stock_daily,  *)
(* get_stock_info and get_financial_data checks the cache before any      *)
(* remote call, and a request whose data a previous request of the same   *)
(* kind and symbol has cached makes no remote call.                       *)
C20_CacheCheckedBeforeRemote ==
    (/\ pcall.op \in {"get_stock_list", "get_stock_daily", "get_stock_info",
                      "get_financial_data"}
     /\ Connected
     /\ provider.enable_cache) =>
        /\ AlreadyCached => RemoteCalls = {}
        /\ \A i \in RemoteCalls : \E j \in 1..(i - 1) : pcall.ext[j].fn = "find"

(* C21: get_stock_daily calls save at most once, only after the remote    *)
(* call returned a non-empty table, with the caller's symbol as given and *)
(* source "tushare", while the remote call carries the normalized symbol; *)
(* when the call returns the empty table (empty answer or any failure),   *)
(* save was not called and the cache is as it was.                        *)
C21_DailySavedUnderCallersSymbol ==
    pcall.op = "get_stock_daily" =>
        /\ Cardinality(Calls("save")) <= 1
        /\ \A i \in Calls("save") :
              /\ i = 2
              /\ pcall.ext[1].fn = "daily"
              /\ pcall.ext[1].out.kind = "frame"
              /\ pcall.ext[1].out.rows # <<>>
              /\ pcall.ext[1].sym = StrArg(normalize_symbol(pcall.symbol.s))
              /\ pcall.ext[i].sym = pcall.symbol
              /\ pcall.ext[i].src = "tushare"
        /\ pcall.result = EmptyFrame => (Calls("save") = {} /\ cache = pcall.before)

(* C21 witness: daily bars asked for 'sh.60' were fetched as '60.SH' and  *)
(* saved under 'sh.60'.                                                   *)
C21_Witness ==
    /\ pcall.op = "get_stock_daily"
    /\ pcall.symbol = StrArg(<<"s", "h", ".", "6", "0">>)
    /\ Len(pcall.ext) = 2
    /\ pcall.ext[1].sym = StrArg(<<"6", "0", ".", "S", "H">>)
    /\ pcall.ext[2].fn = "save"
    /\ pcall.ext[2].out.kind = "ok"
    /\ pcall.ext[2].sym = pcall.symbol
    /\ pcall.symbol \in cache.saved

(***************************************************************************)
(* Claims about both adapters, checked under SpecCalls.                    *)
(***************************************************************************)
StatementCalls == {"balancesheet", "income", "cashflow"}

StatementRecords(fn) ==
    IF fn = "balancesheet" THEN pcall.result.fin.balance_sheet
    ELSE IF fn = "income" THEN pcall.result.fin.income_statement
    ELSE pcall.result.fin.cash_flow

(* C22: no operation retries.  One call of get_stock_list, get_stock_daily *)
(* or get_stock_info issues its remote call at most once, and when that    *)
(* call raised it was the last external call and the fallback is returned; *)
(* one call of get_financial_data issues each statement endpoint at most   *)
(* once, and a statement whose call raised is the empty list; one call of  *)
(* _generate dispatches to the model at most once, and when the dispatch   *)
(* raised, that exception is the one the caller gets.                      *)
C22_NoInternalRetry ==
    /\ pcall.op \in {"get_stock_list", "get_stock_daily", "get_stock_info"} =>
          /\ Cardinality(RemoteCalls) <= 1
          /\ \A i \in RemoteCalls :
                pcall.ext[i].out.kind = "raise" =>
                    /\ i = Len(pcall.ext)
                    /\ ~pcall.raised
                    /\ pcall.result = Fallback(pcall)
    /\ pcall.op = "get_financial_data" =>
          \A fn \in StatementCalls :
              /\ Cardinality(Calls(fn)) <= 1
              /\ \A i \in Calls(fn) :
                    pcall.ext[i].out.kind = "raise" =>
                        (~pcall.raised /\ StatementRecords(fn) = <<>>)
    /\ ccall.op \in {"_generate", "invoke"} =>
          /\ Len(ccall.gen.sent) = 1
          /\ ccall.resp.kind = "raise" =>
                (ccall.gen.raised /\ ccall.gen.exc = ccall.resp.exc)

(* C22 witness: the daily endpoint raised; it was called once and the     *)
(* empty table was returned.                                              *)
C22_Witness ==
    /\ pcall.op = "get_stock_daily"
    /\ Len(pcall.ext) = 1
    /\ pcall.ext[1].fn = "daily"
    /\ pcall.ext[1].out.kind = "raise"
    /\ pcall.result = EmptyFrame

(***************************************************************************)
(* Claims about search_stocks, checked under SpecProvider.                 *)
(***************************************************************************)
(* The keyword occurs in the text as it is written. *)
IsSubstring(k, text) ==
    \E i \in 0..(Len(text) - Len(k)) : SubSeq(text, i + 1, i + Len(k)) = k

LiteralMatch(k, row) ==
    IsSubstring(k, row.name) \/ IsSubstring(k, row.symbol) \/ IsSubstring(k, row.ts_code)

RECURSIVE LiteralRows(_, _)
LiteralRows(k, rows) ==
    IF rows = <<>> THEN <<>>
    ELSE IF LiteralMatch(k, Head(rows)) THEN <<Head(rows)>> \o LiteralRows(k, Tail(rows))
    ELSE LiteralRows(k, Tail(rows))

(* The listing that the get_stock_list inside the call yielded. *)
ListingOf(ext) ==
    IF \E i \in 1..Len(ext) : ext[i].fn = "stock_basic"
    THEN LET out == ext[CHOOSE i \in 1..Len(ext) : ext[i].fn = "stock_basic"].out
         IN  IF out.kind = "frame" THEN out.rows ELSE <<>>
    ELSE IF Len(ext) = 2 /\ ext[2].fn = "load" /\ Readable(ext[2].out)
         THEN ext[2].out.rows
    ELSE <<>>

(* C23: for every keyword string, search_stocks returns exactly the rows  *)
(* of the listing in which the keyword occurs as a literal substring of   *)
(* the name, the short code or the canonical code, and the empty table    *)
(* when the listing is unavailable or empty.                              *)
C23_LiteralSubstringSearch ==
    (pcall.op = "search_stocks" /\ pcall.keyword.isStr) =>
        /\ ~pcall.raised
        /\ pcall.result = Frame(LiteralRows(pcall.keyword.s, ListingOf(pcall.ext)))

(***************************************************************************)
(* Further claims about the chat adapter, checked under SpecChat.          *)
(***************************************************************************)
(* C24: both estimates are at least 1, also for an empty message list and *)
(* an empty generation list; hence, when the reported counts are          *)
(* non-negative integers, a successful dispatch with a tracker configured *)
(* is followed by exactly one track_usage call, and the counts of a call  *)
(* without reported usage are both at least 1.                            *)
C24_EstimateKeepsGuardTrue ==
    Dispatched =>
        LET usage == ccall.resp.result.usage
            zero == usage.prompt_tokens = Tok(0) /\ usage.completion_tokens = Tok(0)
        IN  /\ estimate_input_tokens(ccall.messages) >= 1
            /\ estimate_output_tokens(ccall.resp.result) >= 1
            /\ (tracking /\ IntCounts(usage)) =>
                   /\ ~ccall.gen.raised
                   /\ Len(ccall.gen.tracked) = 1
                   /\ zero => /\ ccall.gen.tracked[1].input_tokens[1] >= 1
                              /\ ccall.gen.tracked[1].output_tokens[1] >= 1

(* C24 witness: no input message, no generation and no usage block; the   *)
(* tracker was called once with 1 and 1.                                  *)
C24_Witness ==
    /\ Dispatched
    /\ tracking
    /\ ccall.messages = <<>>
    /\ ccall.resp.result = ChatResult(<<>>, NoUsage)
    /\ Len(ccall.gen.tracked) = 1
    /\ ccall.gen.tracked[1].input_tokens = Tok(1)
    /\ ccall.gen.tracked[1].output_tokens = Tok(1)

(***************************************************************************)
(* Further claims about the provider, checked under SpecProvider.          *)
(***************************************************************************)
ConnectedHasApi == provider.connected => provider.api

(* An operation of a disconnected provider returns its fallback and has   *)
(* called neither the remote API nor the cache facade.                    *)
DisconnectedFallsBack ==
    (pcall.op # "none" /\ ~provider.connected) =>
        /\ ~pcall.raised
        /\ pcall.result = Fallback(pcall)
        /\ pcall.ext = <<>>
        /\ cache = pcall.before

(* C25: connected implies that the API object exists; connected and api   *)
(* never change after construction; a provider for which no token was     *)
(* found is disconnected; and every operation of a disconnected provider  *)
(* returns its fallback without a remote call and without a cache read or *)
(* write, also when the cache holds a fresh listing.                      *)
C25_DisconnectedStaysInert ==
    /\ [](ConnectedHasApi /\ (~provider.token => ~provider.connected)
            /\ DisconnectedFallsBack)
    /\ [][provider' = provider]_vars

(* C25 witness: a provider whose API initialisation failed, with the      *)
(* cache enabled and holding a fresh two-row listing, has answered        *)
(* get_stock_list with the empty table and no external call.              *)
C25_Witness ==
    /\ provider.token
    /\ ~provider.connected
    /\ provider.enable_cache
    /\ pcall.op = "get_stock_list"
    /\ pcall.before.list = Entry("fresh", Out("frame", <<RowB, RowA>>), "before")
    /\ pcall.ext = <<>>
    /\ pcall.result = EmptyFrame

(* The bars of rows in ascending date order, with their dates as          *)
(* timestamps: what get_stock_daily returns for the fetched rows.         *)
IsSortedBarsOf(result, rows) ==
    /\ Len(result) = Len(rows)
    /\ \A i \in 1..Len(result) : result[i].trade_date.fmt = "datetime"
    /\ \A i \in 1..(Len(result) - 1) :
          result[i].trade_date.day <= result[i + 1].trade_date.day
    /\ \A r \in {rows[i] : i \in 1..Len(rows)} :
          Cardinality({i \in 1..Len(rows) : rows[i] = r})
              = Cardinality({i \in 1..Len(result) :
                                /\ result[i].ts_code = r.ts_code
                                /\ result[i].trade_date.day = r.trade_date.day})

SaveRaised == \E i \in Calls("save") : pcall.ext[i].out.kind = "raise"

(* C26: in get_stock_list and get_stock_daily, when the remote call       *)
(* returned a non-empty table, the table returned is the fetched one (for *)
(* daily bars in date order), whether the cache save succeeded or raised. *)
C26_SaveFailureIsolated ==
    /\ pcall.op = "get_stock_list" =>
          \A i \in Calls("stock_basic") :
              (pcall.ext[i].out.kind = "frame" /\ pcall.ext[i].out.rows # <<>>) =>
                  /\ ~pcall.raised
                  /\ pcall.result = Frame(pcall.ext[i].out.rows)
    /\ pcall.op = "get_stock_daily" =>
          \A i \in Calls("daily") :
              (pcall.ext[i].out.kind = "frame" /\ pcall.ext[i].out.rows # <<>>) =>
                  /\ ~pcall.raised
                  /\ pcall.result.kind = "frame"
                  /\ IsSortedBarsOf(pcall.result.rows, pcall.ext[i].out.rows)

(* C26 witness: two bars fetched in descending date order, the save       *)
(* raised, and the bars were returned in ascending order.                 *)
C26_Witness ==
    /\ pcall.op = "get_stock_daily"
    /\ SaveRaised
    /\ pcall.ext[1].out.rows = <<Day2, Day1>>
    /\ Len(pcall.result.rows) = 2
    /\ pcall.result.rows[1].trade_date = Timestamp(398)
    /\ pcall.result.rows[2].trade_date = Timestamp(399)

(* The cache facade's find or load raised. *)
CacheReadRaised ==
    \E i \in Calls("find") \cup Calls("load") : pcall.ext[i].out.kind = "raise"

(* The payload loaded was text that does not parse. *)
PayloadUnparsable ==
    \E i \in Calls("load") : pcall.ext[i].out.kind = "badjson"

(* C27: in get_stock_list an exception of the facade's find or load ends  *)
(* the call with the empty table, the raising call being the last         *)
(* external call (no remote fetch, no save); a payload that fails to      *)
(* parse is followed by the remote fetch.                                 *)
C27_RaisingCacheReadIsNotAMiss ==
    ListCall =>
        /\ CacheReadRaised =>
              /\ ~pcall.raised
              /\ pcall.result = EmptyFrame
              /\ pcall.ext[Len(pcall.ext)].fn \in {"find", "load"}
              /\ Calls("stock_basic") = {}
              /\ Calls("save") = {}
              /\ cache = pcall.before
        /\ PayloadUnparsable =>
              /\ Cardinality(Calls("stock_basic")) = 1
              /\ "parse" \in pcall.caught

(* C27 witness: find gave a key, load raised, and the empty table was     *)
(* returned after these two calls, although the cache held a listing.     *)
C27_Witness ==
    /\ ListCall
    /\ Readable(pcall.before.list.payload)
    /\ Len(pcall.ext) = 2
    /\ pcall.ext[2].fn = "load"
    /\ pcall.ext[2].out.kind = "raise"
    /\ pcall.result = EmptyFrame

(***************************************************************************)
(* Claims about DeepSeekAdapter, checked under SpecAdapter.                *)
(***************************************************************************)
(* The string form of a part: a str is itself, the int 7 is '7'. *)
FormOf(part) == IF part.kind = "str" THEN part.content ELSE <<Digits[part.n + 1]>>

RECURSIVE Concatenated(_)
Concatenated(parts) ==
    IF parts = <<>> THEN <<>>
    ELSE Concatenated(SubSeq(parts, 1, Len(parts) - 1)) \o FormOf(parts[Len(parts)])

ReplyFor(content) ==
    IF content.shape = "str" THEN content.text
    ELSE IF content.shape = "list" THEN Concatenated(content.parts)
    ELSE <<"N", "o", "n", "e">>

(* The single model call carries the caller's keywords unchanged, plus    *)
(* the instance's max_tokens exactly when the caller gave no max_tokens   *)
(* and the instance has one.                                              *)
OneCallWithKeywords(given) ==
    /\ Len(acall.sent) = 1
    /\ LET kw == acall.sent[1].kwargs
           added == "max_tokens" \notin DOMAIN given /\ ~adapter.max_tokens.none
       IN  /\ \A k \in DOMAIN given : k \in DOMAIN kw /\ kw[k] = given[k]
           /\ DOMAIN kw = DOMAIN given \cup (IF added THEN {"max_tokens"} ELSE {})
           /\ added => kw["max_tokens"] = adapter.max_tokens

(* C28: chat passes the instance's max_tokens to the model call only when *)
(* the caller gave no max_tokens keyword and never replaces the caller's  *)
(* value; it makes exactly one model call; it returns a str content as it *)
(* is, a list as the concatenation of its items' string forms and         *)
(* anything else as its string form; an exception of the model call       *)
(* reaches the caller unchanged.  test_connection never raises and        *)
(* returns False when chat raised or returned the empty string, True      *)
(* otherwise.                                                             *)
C28_ChatForwardsAndStringifies ==
    /\ acall.op = "chat" =>
          /\ OneCallWithKeywords(acall.kwargs)
          /\ acall.sent[1].messages = acall.messages
          /\ IF acall.resp.kind = "raise"
             THEN acall.raised /\ acall.exc = acall.resp.exc
             ELSE ~acall.raised /\ acall.reply = ReplyFor(acall.resp.content)
    /\ acall.op = "test_connection" =>
          /\ OneCallWithKeywords(NoKwargs)
          /\ ~acall.raised
          /\ acall.ok = (acall.resp.kind = "return"
                             /\ ReplyFor(acall.resp.content) # <<>>)

(* C28 witness: the instance's max_tokens is 2000, the caller passed      *)
(* max_tokens=100 and temperature; the model was called with 100 and      *)
(* answered the list ['a', 7]; the reply is 'a7'.                         *)
C28_Witness ==
    /\ acall.op = "chat"
    /\ adapter.max_tokens = Val("2000")
    /\ DOMAIN acall.kwargs = {"max_tokens", "temperature"}
    /\ acall.sent[1].kwargs["max_tokens"] = Val("100")
    /\ acall.resp.content = ListContent(<<StrItem(<<"a">>), IntItem(7)>>)
    /\ acall.reply = <<"a", "7">>

====
